---- MODULE Spec2Model ----
(***************************************************************************)
(* Story generator (src/story_generator.py): the generation pipeline of   *)
(* StoryGenerator with the GeminiClient retry, the recovery of structured *)
(* replies (character list, location list, outline) and the chapter loop. *)
(*                                                                         *)
(* One coroutine runs the whole job, so a step of the model is the code   *)
(* between two suspension points: a service invocation handed to a worker *)
(* (asyncio.to_thread), its completion, an asyncio.sleep.                  *)
(*                                                                         *)
(* Strings of the source that are not ASCII are written in ASCII here.    *)
(***************************************************************************)
EXTENDS Integers, Sequences, FiniteSets, TLC

VARIABLES
    pc,                   \* the await at which the orchestrator is suspended
    client,               \* position inside GeminiClient.generate_content
    attempts,             \* service invocations made by the current generate_content call
    inv_temperature,      \* sampling temperature of the invocation in flight (per mille)
    response,             \* what the service answered to the invocation in flight
    result,               \* the text generate_content returned to its caller
    chapter_count,        \* config.chapter_count
    characters,           \* vector_db.characters.values(), in insertion order
    locations,            \* vector_db.locations.values(), in insertion order
    events,               \* vector_db.events.values(), in insertion order
    next_id,              \* the ids uuid.uuid4() has handed out so far
    characters_json,      \* create_universe: the character reply under recovery
    locations_json,       \* create_universe: the location reply under recovery
    outline_json,         \* generate_story_outline: the outline reply under recovery
    retry_count,          \* the recovery loop's (or the chapter's) retry_count
    characters_processed, \* create_universe: characters_processed
    gen_calls,            \* generate_content calls issued so far, by kind of structured reply
    fallback_used,        \* the kinds whose recovery took its fallback, "universe" for the default universe
    bracket_free,         \* every call of the recovery under way returned a text with no [ and no ]
    story_outline,        \* what generate_story_outline returned
    lists,                \* the list objects that outline entries, chapters and events share
    chapters,             \* self.chapters
    chapter_index,        \* generate_full_story: chapter_index of the for loop
    chapter_content,      \* generate_chapter: chapter_content
    chapter_prompt,       \* generate_chapter: which chapter_prompt the next call sends
    sleeps,               \* asyncio.sleep(10) calls made for the current chapter
    raised,               \* the exception that escaped the running function, or "none"
    files,                \* the files on disk: name -> content
    book,                 \* finalize_book: book_title and foreword
    denied,               \* the files whose open(name, "w") has raised OSError
    in_flight,            \* service invocations handed to a worker and not yet completed
    service,              \* the service of this run: its replies by kind, where it may fail
    env,                  \* what main finds: the API key and whether the config file exists and parses
    exit_code,            \* the exit status of the process, or "running"
    vectors,              \* vector_db.*_vectors and what the indexes hold, by kind (carried where search is modelled)
    found,                \* the last search_similar_* call: its arguments and what it returned
    process,              \* the interpreter: its hash seed and the state of the global random generator
    returned,             \* the vectors generate_vector has returned, by text: in this process, in any process
    pdf_success           \* what generate_pdf_from_markdown returned to finalize_book

vars ==
    << pc, client, attempts, inv_temperature, response, result, chapter_count,
       characters, locations, events, next_id, characters_json, locations_json,
       outline_json, retry_count, characters_processed, gen_calls, fallback_used,
       bracket_free, story_outline, lists, chapters, chapter_index, chapter_content,
       chapter_prompt,
       sleeps, raised, files, book, denied, in_flight, service, env, exit_code,
       vectors, found, process, returned, pdf_success >>

(***************************************************************************)
(* Bounds of the model.                                                    *)
(***************************************************************************)
MaxChapters ==
    2

\* The longest book a job is run for, against a service that never fails:
\* long enough for a checkpoint every CheckpointEvery chapters to fall due
\* before the last chapter.
MaxBook ==
    6

\* The calls of generate_vector followed for one text in one process.
MaxCalls ==
    2

\* The entities of one kind a store is searched with.
MaxEntities ==
    2

\* The largest k a search is made with: more than a store holds.
MaxK ==
    3

\* The entities a store that is not searched is filled with: one of every
\* kind, or more of one.
MaxAdds ==
    3

(***************************************************************************)
(* Reply texts.  A text is a sequence of lexical tokens:                   *)
(*   "["  "]"   the square brackets str.find / str.rfind look for          *)
(*   "w"        a stretch of prose with no bracket in it (not JSON)        *)
(*   "n"        a JSON number                                              *)
(*   "a" "b"    a JSON object literal that may hold lists (which one is    *)
(*              given by ObjectOf); it occurs only after an array's "["    *)
(*   "f"        a JSON object literal that holds no list, so no bracket    *)
(*   "e"        the empty JSON object {}                                   *)
(* Commas are implicit between the elements of an array.  The brackets     *)
(* inside an object literal that is an element of an array lie strictly    *)
(* between the array's own brackets, so find never selects them, and rfind *)
(* selects one only in an array that lacks its own "]", whose text is then *)
(* no JSON with or without the cut.                                        *)
(***************************************************************************)
ObjectTokens ==
    {"a", "b", "e", "f"}

Tokens ==
    {"[", "]", "w", "n"} \cup ObjectTokens

\* str.find(c): the 0-based index of the first c, -1 when there is none.
Find(t, c) ==
    IF \E i \in 1..Len(t) : t[i] = c
    THEN (CHOOSE i \in 1..Len(t) : t[i] = c /\ \A j \in 1..(i - 1) : t[j] # c) - 1
    ELSE -1

\* str.rfind(c): the 0-based index of the last c, -1 when there is none.
RFind(t, c) ==
    IF \E i \in 1..Len(t) : t[i] = c
    THEN (CHOOSE i \in 1..Len(t) : t[i] = c /\ \A j \in (i + 1)..Len(t) : t[j] # c) - 1
    ELSE -1

\* t[start:stop] of Python, on 0-based indices.
Slice(t, start, stop) ==
    SubSeq(t, start + 1, stop)

\* The text holds no "[" and no "]".
NoBrackets(t) ==
    Find(t, "[") = -1 /\ RFind(t, "]") = -1

\* "JSON'i temizle": keep the text from the first "[" to the last "]".
CleanJson(t) ==
    LET start_idx == Find(t, "[")
        end_idx == RFind(t, "]")
    IN  IF start_idx # -1 /\ end_idx # -1 /\ start_idx < end_idx
        THEN Slice(t, start_idx, end_idx + 1)
        ELSE t

\* Nesting depth after the first i tokens of t.
Depth(t, i) ==
    Cardinality({j \in 1..i : t[j] = "["}) - Cardinality({j \in 1..i : t[j] = "]"})

\* json.loads accepts exactly one JSON value: a number, an object, or an
\* array whose closing bracket is the last token.
JsonValid(t) ==
    \/ Len(t) = 1 /\ t[1] \in {"n"} \cup ObjectTokens
    \/ /\ Len(t) >= 2
       /\ t[1] = "["
       /\ \A i \in 1..Len(t) : t[i] # "w"
       /\ \A i \in 1..(Len(t) - 1) : Depth(t, i) >= 1
       /\ Depth(t, Len(t)) = 0

RECURSIVE ArrayItems(_, _)
\* The elements of the array text t from token i on: an object or number
\* token stands for itself, a nested array is the token "L".
ArrayItems(t, i) ==
    IF i >= Len(t)
    THEN << >>
    ELSE (IF t[i] = "[" /\ Depth(t, i) = 2 THEN << "L" >>
          ELSE IF t[i] \notin {"[", "]"} /\ Depth(t, i) = 1 THEN << t[i] >>
          ELSE << >>) \o ArrayItems(t, i + 1)

\* json.loads(t): ok = FALSE stands for json.JSONDecodeError.
JsonLoads(t) ==
    IF ~JsonValid(t) THEN [ok |-> FALSE, type |-> "none", items |-> << >>]
    ELSE IF t[1] = "[" THEN [ok |-> TRUE, type |-> "list", items |-> ArrayItems(t, 2)]
    ELSE IF t[1] = "n" THEN [ok |-> TRUE, type |-> "number", items |-> << >>]
    ELSE [ok |-> TRUE, type |-> "dict", items |-> << t[1] >>]

\* What the object tokens stand for, by the kind of list they are sent in.
ObjectOf(kind, tok) ==
    IF tok = "e" THEN << >>
    ELSE IF tok = "f" THEN
        (IF kind = "outline" THEN [number |-> 4, title |-> "Kale"]
         ELSE [name |-> "Kale"])
    ELSE IF kind = "character" THEN
        (IF tok = "a"
         THEN [name |-> "Ayla", description |-> "kaptan", traits |-> << "cesur" >>,
               background |-> "liman", story_arc |-> "yolculuk"]
         ELSE [name |-> "Baran", description |-> "usta"])
    ELSE IF kind = "location" THEN
        (IF tok = "a"
         THEN [name |-> "Liman", description |-> "eski liman", importance |-> "Merkezi",
               connected_locations |-> << "Ada" >>]
         ELSE [name |-> "Ada", description |-> "uzak ada"])
    ELSE
        (IF tok = "a"
         THEN [number |-> 7, title |-> "Firtina", summary |-> "ozet a",
               characters |-> << "Ayla" >>, locations |-> << "Liman" >>,
               events |-> << "Firtina kopar" >>]
         ELSE [number |-> 7, title |-> "Ada", summary |-> "ozet b",
               characters |-> << "Baran", "Ana Kahraman" >>, locations |-> << "Ada" >>,
               events |-> << "Karaya cikis", "Kesif" >>])

\* dict.get(key, default)
Get(obj, key, default) ==
    IF key \in DOMAIN obj THEN obj[key] ELSE default

\* A token of a parsed array is a dict exactly when it is an object token.
IsDict(tok) ==
    tok \in ObjectTokens


(***************************************************************************)
(* Program constants.                                                      *)
(***************************************************************************)
\* GeminiClient.temperature, TEMPERATURE's default 0.7, in thousandths.
Temperature ==
    700

\* A recovery loop that allows one more attempt.
MaxRetriesOneMore ==
    3 + 1

\* max_retries of create_universe: of its character loop and of its
\* location loop.
MaxRetries ==
    3

\* max_retries of generate_story_outline.
OutlineMaxRetries ==
    3

\* A chapter loop that allows one more retry.
ChapterMaxRetriesOneMore ==
    2 + 1

\* max_retries of generate_chapter.
ChapterMaxRetries ==
    2

\* len(chapter_content) < 500: the shortest chapter reply taken.
MinChapterLength ==
    500

\* A checkpoint is taken every fifth chapter.
CheckpointEvery ==
    5

NoText ==
    << >>

Pending ==
    [status |-> "pending", text |-> NoText]

(***************************************************************************)
(* The service and GeminiClient.generate_content.                          *)
(***************************************************************************)
\* The replies the service may give to a request for a JSON array.
StructuredReplies ==
    { << "[", "a", "b", "]" >>,            \* a bare array of two records
      << "w", "[", "a", "]", "w" >>,       \* an array with prose around it
      << "[", "]" >>,                      \* an empty array
      << "w" >>,                           \* prose only
      << "n" >>,                           \* a JSON number
      << "e" >>,                           \* the JSON object {}
      << "f" >>,                           \* one JSON object, not in an array
      << "[", "a", "n", "]" >>,            \* an array whose second element is no record
      << "[", "a" >>,                      \* a truncated array
      << "[", "e", "]" >>,                 \* an array of one record with no field
      << "[", "b", "a", "b", "]" >> }      \* a bare array of three records

\* The replies the service may give to a chapter prompt: prose, of which
\* the model keeps the length len(chapter_content).
ChapterReplies ==
    { [kind |-> "reply", len |-> n] :
        n \in {0, MinChapterLength - 1, MinChapterLength} }

\* The awaits of the job at which generate_content is called.
CallSites ==
    {"plot", "characters", "characters_fix", "locations", "locations_fix",
     "outline", "outline_fix", "chapter", "title", "foreword", "appendix"}

\* A service that may give any of the replies to a request and may fail at
\* any call.
FullService ==
    [character |-> StructuredReplies,
     location |-> StructuredReplies,
     outline |-> StructuredReplies,
     chapter |-> ChapterReplies,
     faults |-> CallSites]

\* The replies the service may give at the call the orchestrator awaits.
RepliesAt(site) ==
    IF site \in {"characters", "characters_fix"} THEN service.character
    ELSE IF site \in {"locations", "locations_fix"} THEN service.location
    ELSE IF site \in {"outline", "outline_fix"} THEN service.outline
    ELSE IF site = "chapter" THEN service.chapter
    ELSE { << "w" >> }

\* generate_content is entered: the first invocation goes to a worker.
IssueCall ==
    /\ client' = "first"
    /\ attempts' = 1
    /\ inv_temperature' = Temperature
    /\ response' = Pending
    /\ result' = NoText
    /\ in_flight' = in_flight + 1

\* A retry that keeps the temperature of the first invocation.
RetryTemperatureUnchanged ==
    Temperature

\* The temperature of the retry: self.temperature * 0.9.
RetryTemperature ==
    (Temperature * 9) \div 10

orchVars ==
    << pc, chapter_count, characters, locations, events, next_id, characters_json,
       locations_json, outline_json, retry_count, characters_processed, gen_calls,
       fallback_used, bracket_free, story_outline, lists, chapters, chapter_index,
       chapter_content, chapter_prompt, sleeps, raised, files, book, denied, service,
       env, exit_code, vectors, found, process, returned, pdf_success >>

\* The invocation in flight completes with a response.
ServiceResponds ==
    /\ client \in {"first", "second"}
    /\ response.status = "pending"
    /\ \E r \in RepliesAt(pc) : response' = [status |-> "ok", text |-> r]
    /\ in_flight' = in_flight - 1
    /\ UNCHANGED << client, attempts, inv_temperature, result >>
    /\ UNCHANGED orchVars

\* The invocation in flight fails (transport error, or response.text raises).
ServiceFails ==
    /\ client \in {"first", "second"}
    /\ response.status = "pending"
    /\ pc \in service.faults
    /\ response' = [status |-> "error", text |-> NoText]
    /\ in_flight' = in_flight - 1
    /\ UNCHANGED << client, attempts, inv_temperature, result >>
    /\ UNCHANGED orchVars

\* return response.text, of the first invocation or of the retry.
ClientReturns ==
    /\ client \in {"first", "second"}
    /\ response.status = "ok"
    /\ client' = "returned"
    /\ result' = response.text
    /\ UNCHANGED << attempts, inv_temperature, response, in_flight >>
    /\ UNCHANGED orchVars

\* except Exception of the first invocation: log, then asyncio.sleep(5).
ClientCatches ==
    /\ client = "first"
    /\ response.status = "error"
    /\ client' = "sleep5"
    /\ UNCHANGED << attempts, inv_temperature, response, result, in_flight >>
    /\ UNCHANGED orchVars

\* The sleep is over: the one retry, at the reduced temperature.
ClientRetries ==
    /\ client = "sleep5"
    /\ client' = "second"
    /\ attempts' = attempts + 1
    /\ inv_temperature' = RetryTemperature
    /\ response' = Pending
    /\ in_flight' = in_flight + 1
    /\ UNCHANGED result
    /\ UNCHANGED orchVars

\* except Exception of the retry: log and raise.
ClientRaises ==
    /\ client = "second"
    /\ response.status = "error"
    /\ client' = "raised"
    /\ UNCHANGED << attempts, inv_temperature, response, result, in_flight >>
    /\ UNCHANGED orchVars

ClientStep ==
    \/ ServiceResponds
    \/ ServiceFails
    \/ ClientReturns
    \/ ClientCatches
    \/ ClientRetries
    \/ ClientRaises

\* The awaited generate_content call is over: the orchestrator resumes and
\* the client is left as it is until the next call enters it.
ClientRests ==
    UNCHANGED << client, attempts, inv_temperature, response, result, in_flight >>


(***************************************************************************)
(* What the parts of the model that a job does not reach start from.       *)
(***************************************************************************)
\* main finds a key that is no placeholder and a config file that parses.
GoodEnv ==
    [api_key |-> "valid", config |-> "valid", dotenv |-> TRUE]

\* VectorDatabase.__init__: no vector, three empty indexes.
NoVectors ==
    [character |-> << >>, location |-> << >>, event |-> << >>,
     character_index |-> << >>, location_index |-> << >>,
     event_index |-> << >>]

\* generate_chapter has built no prompt.
NoPrompt ==
    [kind |-> "none", characters |-> 0, locations |-> 0,
     character_details |-> << >>, location_details |-> << >>,
     recap |-> << >>, events |-> << >>]

\* No search has been made.
NoSearch ==
    [kind |-> "none"]

\* The texts generate_vector is called with.
Texts ==
    {"Ayla", "Liman", "Olay"}

\* The hash seeds an interpreter may start with: str hashes are salted per
\* process unless PYTHONHASHSEED fixes the salt.
HashSeeds ==
    {0, 1}

\* The states of the global generator of the random module.
RngStates ==
    0..6

\* An interpreter as a job starts in it.
FirstProcess ==
    [hashseed |-> 0, rng |-> 0]

\* generate_vector has not been called.
NothingReturned ==
    [run |-> [t \in Texts |-> {}], ever |-> [t \in Texts |-> {}],
     calls |-> [t \in Texts |-> 0]]

(***************************************************************************)
(* The entity store (VectorDatabase) and the entities put into it.         *)
(***************************************************************************)
\* Character(id=..., name=char_data.get('name', ...), ...)
NewCharacter(id, obj) ==
    [id |-> id,
     name |-> Get(obj, "name", "Isimsiz Karakter"),
     description |-> Get(obj, "description", "Aciklama yok"),
     traits |-> Get(obj, "traits", << >>),
     background |-> Get(obj, "background", "Gecmis bilgisi yok"),
     relationships |-> Get(obj, "relationships", << >>),
     story_arc |-> Get(obj, "story_arc", "")]

\* Location(id=..., name=loc_data.get('name', ''), ...)
NewLocation(id, obj) ==
    [id |-> id,
     name |-> Get(obj, "name", ""),
     description |-> Get(obj, "description", ""),
     importance |-> Get(obj, "importance", ""),
     connected_locations |-> Get(obj, "connected_locations", << >>)]

\* default_characters, in create_universe and in _create_default_universe.
DefaultCharacters ==
    << [name |-> "Ana Kahraman", description |-> "Hikayenin ana kahramani",
        traits |-> << "Cesur", "Kararli", "Durust" >>,
        background |-> "Siradan bir hayattan maceraya atilan genc",
        relationships |-> << >>, story_arc |-> "Kahramanin yolculugu"],
       [name |-> "Akil Hocasi", description |-> "Kahramana yol gosteren bilge",
        traits |-> << "Bilge", "Gizemli", "Yardimsever" >>,
        background |-> "Yasli bir rehber",
        relationships |-> [Ana_Kahraman |-> "Rehber ve ogretmen"],
        story_arc |-> "Kahramana rehberlik etme"],
       [name |-> "Rakip", description |-> "Kahramanin yoluna cikan guclu rakip",
        traits |-> << "Hirsli", "Zeki", "Rekabetci" >>,
        background |-> "Kendi hedefleri icin mucadele eden karakter",
        relationships |-> [Ana_Kahraman |-> "Rakip"],
        story_arc |-> "Rekabet ve catisma"] >>

\* default_locations, in create_universe and in _create_default_universe.
DefaultLocations ==
    << [name |-> "Ana Sehir", description |-> "Hikayenin ana mekani olan buyuk sehir",
        importance |-> "Merkezi", connected_locations |-> << >>],
       [name |-> "Orman", description |-> "Sehrin disindaki genis orman",
        importance |-> "Onemli", connected_locations |-> << >>],
       [name |-> "Daglar", description |-> "Ufukta yukselen heybetli daglar",
        importance |-> "Arka plan", connected_locations |-> << >>] >>

\* An add that puts the new characters in place of the ones the map holds.
ReplaceCharacters(store, objs, id0) ==
    [i \in 1..Len(objs) |-> NewCharacter(id0 + i, objs[i])]

\* vector_db.add_character for each object of objs in turn, with fresh ids
\* from id0 + 1 on.
AddCharacters(store, objs, id0) ==
    store \o [i \in 1..Len(objs) |-> NewCharacter(id0 + i, objs[i])]

\* vector_db.add_location for each object of objs in turn.
AddLocations(store, objs, id0) ==
    store \o [i \in 1..Len(objs) |-> NewLocation(id0 + i, objs[i])]

\* save_to_file's data: every entity of the three maps, an event's
\* characters_involved by the value its list object has in heap.
Snapshot(chars, locs, evs, heap) ==
    [characters |-> chars,
     locations |-> locs,
     events |-> [i \in 1..Len(evs) |->
                    [evs[i] EXCEPT !.characters_involved = heap[@]]]]

\* A write in append mode under a fresh name: what the disk held is kept and
\* content is put beside it.
WriteFileKeeping(disk, name, content) ==
    LET fresh == IF name \in DOMAIN disk THEN name \o ".1" ELSE name
    IN  [n \in DOMAIN disk \cup {fresh} |-> IF n = fresh THEN content ELSE disk[n]]

\* open(name, "w") and a write of content: the file is replaced when the
\* disk takes the write and left as it was when it does not.
WriteFile(disk, name, content) ==
    [n \in DOMAIN disk \cup {name} |-> IF n = name THEN content ELSE disk[n]]

(***************************************************************************)
(* Processing of a parsed list reply (characters, locations).              *)
(***************************************************************************)
\* The number of leading elements of items that are dicts.
RECURSIVE DictPrefixLen(_)
DictPrefixLen(items) ==
    IF items = << >> \/ ~IsDict(Head(items)) THEN 0
    ELSE 1 + DictPrefixLen(Tail(items))

\* json.loads, len() and the for loop over the parsed value: the objects
\* turned into entities before the loop ends or raises, and the exception.
\*   a number: len() raises TypeError;
\*   the object {}: len() is 0 and the loop runs over no key;
\*   another object: the loop runs over its keys, and str has no get;
\*   a list: each element's get, which a number or a list does not have.
ProcessList(kind, text) ==
    LET v == JsonLoads(text)
        n == DictPrefixLen(v.items)
    IN  IF ~v.ok THEN [exc |-> "JSONDecodeError", objs |-> << >>]
        ELSE IF v.type = "number" THEN [exc |-> "TypeError", objs |-> << >>]
        ELSE IF v.type = "dict"
        THEN (IF DOMAIN ObjectOf(kind, v.items[1]) = {}
              THEN [exc |-> "none", objs |-> << >>]
              ELSE [exc |-> "AttributeError", objs |-> << >>])
        ELSE [exc |-> IF n = Len(v.items) THEN "none" ELSE "AttributeError",
              objs |-> [i \in 1..n |-> ObjectOf(kind, v.items[i])]]

\* The character loop cleans the reply before json.loads.
ProcessCharacters(text) ==
    ProcessList("character", CleanJson(text))

\* The location loop hands the reply to json.loads as it is.
ProcessLocations(text) ==
    ProcessList("location", text)


(***************************************************************************)
(* The orchestrator's state as one record, so that a step names only what  *)
(* it changes.                                                             *)
(***************************************************************************)
Orch ==
    [pc |-> pc, chapter_count |-> chapter_count, characters |-> characters,
     locations |-> locations, events |-> events, next_id |-> next_id,
     characters_json |-> characters_json, locations_json |-> locations_json,
     outline_json |-> outline_json, retry_count |-> retry_count,
     characters_processed |-> characters_processed, gen_calls |-> gen_calls,
     fallback_used |-> fallback_used, bracket_free |-> bracket_free,
     story_outline |-> story_outline,
     lists |-> lists, chapters |-> chapters, chapter_index |-> chapter_index,
     chapter_content |-> chapter_content, chapter_prompt |-> chapter_prompt,
     sleeps |-> sleeps, raised |-> raised, files |-> files, book |-> book,
     denied |-> denied,
     service |-> service, env |-> env, exit_code |-> exit_code,
     vectors |-> vectors, found |-> found, process |-> process,
     returned |-> returned, pdf_success |-> pdf_success]

Become(o) ==
    /\ pc' = o.pc
    /\ chapter_count' = o.chapter_count
    /\ characters' = o.characters
    /\ locations' = o.locations
    /\ events' = o.events
    /\ next_id' = o.next_id
    /\ characters_json' = o.characters_json
    /\ locations_json' = o.locations_json
    /\ outline_json' = o.outline_json
    /\ retry_count' = o.retry_count
    /\ characters_processed' = o.characters_processed
    /\ gen_calls' = o.gen_calls
    /\ fallback_used' = o.fallback_used
    /\ bracket_free' = o.bracket_free
    /\ story_outline' = o.story_outline
    /\ lists' = o.lists
    /\ chapters' = o.chapters
    /\ chapter_index' = o.chapter_index
    /\ chapter_content' = o.chapter_content
    /\ chapter_prompt' = o.chapter_prompt
    /\ sleeps' = o.sleeps
    /\ raised' = o.raised
    /\ files' = o.files
    /\ book' = o.book
    /\ denied' = o.denied
    /\ service' = o.service
    /\ env' = o.env
    /\ exit_code' = o.exit_code
    /\ vectors' = o.vectors
    /\ found' = o.found
    /\ process' = o.process
    /\ returned' = o.returned
    /\ pdf_success' = o.pdf_success

\* The orchestrator goes on to o: it enters generate_content when o.pc is
\* one of its call sites.
Continue(o) ==
    /\ Become(o)
    /\ IF o.pc \in CallSites THEN IssueCall ELSE ClientRests

\* An orchestrator that goes on from a call site without awaiting the call.
ResumedEarly(site) ==
    pc = site

\* generate_content has returned or raised at the call site the
\* orchestrator awaits.
Resumed(site) ==
    /\ pc = site
    /\ client \in {"returned", "raised"}

(***************************************************************************)
(* create_universe.                                                        *)
(***************************************************************************)
\* create_universe without its except Exception: the exception leaves it.
UniverseRaises(o) ==
    [o EXCEPT !.raised = "Exception", !.pc = "job_except"]

\* except Exception: _create_default_universe(), on top of what the store holds.
DefaultUniverse(o) ==
    [o EXCEPT !.fallback_used = @ \cup {"universe"},
              !.characters = AddCharacters(@, DefaultCharacters, o.next_id),
              !.locations = AddLocations(@, DefaultLocations,
                                         o.next_id + Len(DefaultCharacters)),
              !.next_id = @ + Len(DefaultCharacters) + Len(DefaultLocations),
              !.pc = "universe_done"]

\* create_universe is called: the plot summary is requested.
StartUniverse ==
    /\ pc = "start"
    /\ Continue([Orch EXCEPT !.pc = "plot"])

\* The plot summary arrives and the character list is requested.
PlotResumes ==
    /\ Resumed("plot")
    /\ IF client = "raised"
       THEN Continue(DefaultUniverse([Orch EXCEPT !.bracket_free = FALSE]))
       ELSE Continue([Orch EXCEPT !.pc = "characters",
                                  !.gen_calls.character = 1])

\* The while loop over the character reply, from its test to the next await
\* or to the request of the location list.
CharactersLoop(o) ==
    LET p == ProcessCharacters(o.characters_json)
        added == [o EXCEPT !.characters = AddCharacters(@, p.objs, o.next_id),
                           !.next_id = @ + Len(p.objs)]
    IN  IF p.exc = "none"
        THEN [added EXCEPT !.characters_processed = TRUE,
                           !.pc = "locations",
                           !.gen_calls.location = 1]
        ELSE IF p.exc = "JSONDecodeError"
        THEN (IF o.retry_count + 1 < MaxRetries
              THEN [o EXCEPT !.retry_count = @ + 1,
                             !.pc = "characters_fix",
                             !.gen_calls.character = @ + 1]
              ELSE [o EXCEPT !.retry_count = @ + 1,
                             !.characters = AddCharacters(@, DefaultCharacters, o.next_id),
                             !.next_id = @ + Len(DefaultCharacters),
                             !.fallback_used = @ \cup {"character"},
                             !.characters_processed = TRUE,
                             !.pc = "locations",
                             !.gen_calls.location = 1])
        ELSE DefaultUniverse(added)

\* The character reply arrives.
CharactersResumes ==
    /\ Resumed("characters")
    /\ IF client = "raised"
       THEN Continue(DefaultUniverse([Orch EXCEPT !.bracket_free = FALSE]))
       ELSE Continue(CharactersLoop([Orch EXCEPT !.characters_json = result,
                                                 !.bracket_free = NoBrackets(result),
                                                 !.retry_count = 0,
                                                 !.characters_processed = FALSE]))

\* The reply to the fix prompt arrives.
CharactersFixResumes ==
    /\ Resumed("characters_fix")
    /\ IF client = "raised"
       THEN Continue(DefaultUniverse([Orch EXCEPT !.bracket_free = FALSE]))
       ELSE Continue(CharactersLoop(
                [Orch EXCEPT !.characters_json = result,
                             !.bracket_free = @ /\ NoBrackets(result)]))

\* open(name, "w") and the writes that follow it: the file holds content,
\* or open raises OSError and the disk is left as it was.
TryWrite(o, disk_ok, name, content) ==
    IF disk_ok
    THEN [o EXCEPT !.files = WriteFile(@, name, content)]
    ELSE [o EXCEPT !.denied = @ \cup {name}]

\* self.vector_db.save_to_file("backup/universe_data.json"), which logs and
\* swallows a failed write, and the return of create_universe.
SaveUniverse(o, disk_ok) ==
    [TryWrite(o, disk_ok, "backup/universe_data.json",
              Snapshot(o.characters, o.locations, o.events, o.lists))
        EXCEPT !.pc = "universe_done"]

\* The while loop over the location reply, from its test to the next await
\* or to the end of create_universe.
LocationsLoop(o, disk_ok) ==
    LET p == ProcessLocations(o.locations_json)
        added == [o EXCEPT !.locations = AddLocations(@, p.objs, o.next_id),
                           !.next_id = @ + Len(p.objs)]
    IN  IF p.exc = "none"
        THEN SaveUniverse(added, disk_ok)
        ELSE IF p.exc = "JSONDecodeError"
        THEN (IF o.retry_count + 1 < MaxRetries
              THEN [o EXCEPT !.retry_count = @ + 1,
                             !.pc = "locations_fix",
                             !.gen_calls.location = @ + 1]
              ELSE SaveUniverse(
                       [o EXCEPT !.retry_count = @ + 1,
                                 !.locations = AddLocations(@, DefaultLocations, o.next_id),
                                 !.next_id = @ + Len(DefaultLocations),
                                 !.fallback_used = @ \cup {"location"}],
                       disk_ok))
        ELSE DefaultUniverse(added)

\* The location reply arrives.
LocationsResumes ==
    /\ Resumed("locations")
    /\ IF client = "raised"
       THEN Continue(DefaultUniverse([Orch EXCEPT !.bracket_free = FALSE]))
       ELSE \E disk_ok \in BOOLEAN :
                Continue(LocationsLoop([Orch EXCEPT !.locations_json = result,
                                                    !.bracket_free = NoBrackets(result),
                                                    !.retry_count = 0], disk_ok))

\* The reply to the location fix prompt arrives.
LocationsFixResumes ==
    /\ Resumed("locations_fix")
    /\ IF client = "raised"
       THEN Continue(DefaultUniverse([Orch EXCEPT !.bracket_free = FALSE]))
       ELSE \E disk_ok \in BOOLEAN :
                Continue(LocationsLoop(
                    [Orch EXCEPT !.locations_json = result,
                                 !.bracket_free = @ /\ NoBrackets(result)], disk_ok))

UniverseStep ==
    \/ StartUniverse
    \/ PlotResumes
    \/ CharactersResumes
    \/ CharactersFixResumes
    \/ LocationsResumes
    \/ LocationsFixResumes

(***************************************************************************)
(* generate_story_outline.  The "characters" and "locations" lists of an   *)
(* outline entry are list objects: a padding entry holds the very lists of *)
(* the reply's last entry, so an entry carries references into lists.      *)
(***************************************************************************)
Min(a, b) ==
    IF a < b THEN a ELSE b

\* One entry dict as json.loads builds it: its "characters" and "locations"
\* lists are new list objects.
MakeEntry(obj, heap) ==
    LET has_c == "characters" \in DOMAIN obj
        has_l == "locations" \in DOMAIN obj
        heap1 == IF has_c THEN Append(heap, obj.characters) ELSE heap
        heap2 == IF has_l THEN Append(heap1, obj.locations) ELSE heap1
    IN  [entry |-> [k \in DOMAIN obj |->
                        IF k = "characters" THEN Len(heap1)
                        ELSE IF k = "locations" THEN Len(heap2)
                        ELSE obj[k]],
         lists |-> heap2]

RECURSIVE LoadEntries(_, _)
\* The entry dicts of the object tokens toks, in order.
LoadEntries(toks, heap) ==
    IF toks = << >> THEN [entries |-> << >>, lists |-> heap]
    ELSE LET e == MakeEntry(ObjectOf("outline", Head(toks)), heap)
             rest == LoadEntries(Tail(toks), e.lists)
         IN  [entries |-> << e.entry >> \o rest.entries, lists |-> rest.lists]

\* A placeholder that carries no selection: two new empty lists.
PlaceholderBare(i, last_chapter, heap) ==
    [entry |-> [number |-> i,
                title |-> "Bolum " \o ToString(i),
                summary |-> "Hikayenin " \o ToString(i) \o ". bolumu",
                characters |-> Len(heap) + 1,
                locations |-> Len(heap) + 2,
                events |-> << "Olay " \o ToString(i) \o ".1",
                              "Olay " \o ToString(i) \o ".2" >>],
     lists |-> heap \o << << >>, << >> >>]

\* new_chapter of the padding loop: last_chapter.get("characters", []) is
\* the last entry's own list when it has one, a new empty list otherwise.
Placeholder(i, last_chapter, heap) ==
    LET has_c == "characters" \in DOMAIN last_chapter
        has_l == "locations" \in DOMAIN last_chapter
        heap1 == IF has_c THEN heap ELSE Append(heap, << >>)
        heap2 == IF has_l THEN heap1 ELSE Append(heap1, << >>)
    IN  [entry |-> [number |-> i,
                    title |-> "Bolum " \o ToString(i),
                    summary |-> "Hikayenin " \o ToString(i) \o ". bolumu",
                    characters |-> IF has_c THEN last_chapter.characters ELSE Len(heap1),
                    locations |-> IF has_l THEN last_chapter.locations ELSE Len(heap2),
                    events |-> << "Olay " \o ToString(i) \o ".1",
                                  "Olay " \o ToString(i) \o ".2" >>],
         lists |-> heap2]

RECURSIVE PadOutline(_, _, _, _, _)
\* for i in range(actual_chapter_count + 1, target_chapter_count + 1)
PadOutline(entries, i, target, last_chapter, heap) ==
    IF i > target THEN [entries |-> entries, lists |-> heap]
    ELSE LET e == Placeholder(i, last_chapter, heap)
         IN  PadOutline(Append(entries, e.entry), i + 1, target, last_chapter, e.lists)

\* for i, chapter in enumerate(outline_data): chapter["number"] = i + 1
Renumber(entries) ==
    [i \in 1..Len(entries) |->
        [k \in DOMAIN entries[i] \cup {"number"} |->
            IF k = "number" THEN i ELSE entries[i][k]]]

\* The code between json.loads and the write of the outline, on the parsed
\* value v:
\*   a number: len() raises TypeError;
\*   an object: it has as many entries as keys; [-1] raises KeyError, a
\*     slice (KeyError from Python 3.12 on) or an item assignment on a key
\*     raises TypeError;
\*   a list: [-1] of an empty list raises IndexError, get on a last element
\*     that is no dict raises AttributeError, and the item assignment on an
\*     element that is no dict raises TypeError.
NormalizeOutline(v, target_chapter_count, heap) ==
    LET Raise(e) == [exc |-> e, outline |-> << >>, lists |-> heap]
        actual_chapter_count ==
            IF v.type = "list" THEN Len(v.items)
            ELSE Cardinality(DOMAIN ObjectOf("outline", v.items[1]))
        kept == SubSeq(v.items, 1, Min(actual_chapter_count, target_chapter_count))
    IN  IF v.type = "number" THEN Raise("TypeError")
        ELSE IF v.type = "dict"
        THEN (IF actual_chapter_count < target_chapter_count
              THEN Raise("KeyError") ELSE Raise("TypeError"))
        ELSE IF actual_chapter_count < target_chapter_count /\ actual_chapter_count = 0
        THEN Raise("IndexError")
        ELSE IF /\ actual_chapter_count < target_chapter_count
                /\ ~IsDict(v.items[actual_chapter_count])
        THEN Raise("AttributeError")
        ELSE IF \E i \in 1..Len(kept) : ~IsDict(kept[i])
        THEN Raise("TypeError")
        ELSE LET loaded == LoadEntries(kept, heap)
                 padded == IF actual_chapter_count < target_chapter_count
                           THEN PadOutline(loaded.entries, actual_chapter_count + 1,
                                           target_chapter_count,
                                           loaded.entries[actual_chapter_count],
                                           loaded.lists)
                           ELSE loaded
             IN  [exc |-> "none", outline |-> Renumber(padded.entries),
                  lists |-> padded.lists]

\* [c.name for c in chars]
Names(store) ==
    [i \in 1..Len(store) |-> store[i].name]

\* random.sample(population, k): any k elements at distinct positions, in
\* any order.
Samples(population, k) ==
    { [i \in 1..k |-> population[f[i]]] :
        f \in { g \in [1..k -> 1..Len(population)] :
                    \A a, b \in 1..k : a # b => g[a] # g[b] } }

\* The samples the default outline may draw for one chapter.
OutlinePicks(o) ==
    LET char_names == IF o.characters # << >> THEN Names(o.characters)
                      ELSE << "Ana Karakter" >>
        loc_names == IF o.locations # << >> THEN Names(o.locations)
                     ELSE << "Ana Mekan" >>
    IN  Samples(char_names, Min(3, Len(char_names)))
            \X Samples(loc_names, Min(2, Len(loc_names)))

RECURSIVE DefaultOutline(_, _, _, _)
\* The default outline's entries from number i on; picks[i] holds the two
\* samples drawn for entry i.
DefaultOutline(picks, i, target, heap) ==
    IF i > target THEN [entries |-> << >>, lists |-> heap]
    ELSE LET heap2 == heap \o << picks[i][1], picks[i][2] >>
             rest == DefaultOutline(picks, i + 1, target, heap2)
         IN  [entries |->
                  << [number |-> i,
                      title |-> "Bolum " \o ToString(i),
                      summary |-> "Hikayenin " \o ToString(i) \o ". bolumu",
                      characters |-> Len(heap) + 1,
                      locations |-> Len(heap) + 2,
                      events |-> << "Olay " \o ToString(i) \o ".1",
                                    "Olay " \o ToString(i) \o ".2" >>] >>
                  \o rest.entries,
              lists |-> rest.lists]

\* An outline as json.dump writes it: every list by its value.
DumpOutline(entries, heap) ==
    [i \in 1..Len(entries) |->
        [k \in DOMAIN entries[i] |->
            IF k \in {"characters", "locations"} THEN heap[entries[i][k]]
            ELSE entries[i][k]]]

\* with open(name, "w"): json.dump(outline_data), then return outline_data;
\* a failed write raises OSError out of generate_story_outline.
ReturnOutline(o, name, outline, heap, disk_ok) ==
    IF disk_ok
    THEN [o EXCEPT !.files = WriteFile(@, name, DumpOutline(outline, heap)),
                   !.story_outline = outline,
                   !.lists = heap,
                   !.pc = "outline_done"]
    ELSE [o EXCEPT !.denied = @ \cup {name}, !.raised = "OSError",
                   !.pc = "job_except"]

\* The while loop over the outline reply, from its test to the next await,
\* to the return or to the exception that leaves the function.
OutlineLoop(o, disk_ok, picks) ==
    LET v == JsonLoads(CleanJson(o.outline_json))
        n == NormalizeOutline(v, o.chapter_count, o.lists)
        d == DefaultOutline(picks, 1, o.chapter_count, o.lists)
    IN  IF ~v.ok
        THEN (IF o.retry_count + 1 < OutlineMaxRetries
              THEN [o EXCEPT !.retry_count = @ + 1,
                             !.pc = "outline_fix",
                             !.gen_calls.outline = @ + 1]
              ELSE ReturnOutline([o EXCEPT !.retry_count = @ + 1,
                                           !.fallback_used = @ \cup {"outline"}],
                                 "backup/story_outline_default.json",
                                 d.entries, d.lists, disk_ok))
        ELSE IF n.exc # "none"
        THEN [o EXCEPT !.raised = n.exc, !.pc = "job_except"]
        ELSE ReturnOutline(o, "backup/story_outline.json", n.outline, n.lists, disk_ok)

\* Whether the loop on o ends in the default outline, which draws samples.
DrawsSamples(o) ==
    /\ ~JsonLoads(CleanJson(o.outline_json)).ok
    /\ o.retry_count + 1 >= OutlineMaxRetries

\* The draws of random.sample the step on o may see.
PicksOf(o) ==
    IF DrawsSamples(o)
    THEN [1..o.chapter_count -> OutlinePicks(o)]
    ELSE { [i \in 1..o.chapter_count |-> << << >>, << >> >>] }

\* generate_story_outline is called: the prompt is built from the store and
\* the outline is requested.
StartOutline ==
    /\ pc = "outline_start"
    /\ Continue([Orch EXCEPT !.pc = "outline", !.gen_calls.outline = 1])

\* An exception of generate_content leaves generate_story_outline.
OutlineCallRaised(o) ==
    [o EXCEPT !.raised = "GenerationFailure", !.bracket_free = FALSE,
              !.pc = "job_except"]

\* The outline reply arrives.
OutlineResumes ==
    /\ Resumed("outline")
    /\ IF client = "raised"
       THEN Continue(OutlineCallRaised(Orch))
       ELSE LET o == [Orch EXCEPT !.outline_json = result,
                                  !.bracket_free = NoBrackets(result),
                                  !.retry_count = 0]
            IN  \E disk_ok \in BOOLEAN : \E picks \in PicksOf(o) :
                    Continue(OutlineLoop(o, disk_ok, picks))

\* The reply to the outline fix prompt arrives.
OutlineFixResumes ==
    /\ Resumed("outline_fix")
    /\ IF client = "raised"
       THEN Continue(OutlineCallRaised(Orch))
       ELSE LET o == [Orch EXCEPT !.outline_json = result,
                                  !.bracket_free = @ /\ NoBrackets(result)]
            IN  \E disk_ok \in BOOLEAN : \E picks \in PicksOf(o) :
                    Continue(OutlineLoop(o, disk_ok, picks))

OutlineStep ==
    \/ StartOutline
    \/ OutlineResumes
    \/ OutlineFixResumes

(***************************************************************************)
(* generate_chapter and the for loop of generate_full_story.               *)
(***************************************************************************)
\* The first stored entity of that name, if any: matching[0].
Resolves(store, name) ==
    \E i \in 1..Len(store) : store[i].name = name

\* The names of a list that resolve in store: one detail line for each.
Details(store, names) ==
    SelectSeq(names, LAMBDA nm : Resolves(store, nm))

\* chapter_outline.get(key, []): the entry's own list object, or a new
\* empty list.  ref is the list's reference, lists the heap holding it.
EntryList(entry, key, heap) ==
    IF key \in DOMAIN entry
    THEN [ref |-> entry[key], lists |-> heap]
    ELSE [ref |-> Len(heap) + 1, lists |-> Append(heap, << >>)]

\* matching[0] for each name of the list that resolves: the first stored
\* entity of that name.
Matching(store, names) ==
    LET resolved == Details(store, names)
    IN  [i \in 1..Len(resolved) |->
            store[CHOOSE j \in 1..Len(store) :
                      /\ store[j].name = resolved[i]
                      /\ \A h \in 1..(j - 1) : store[h].name # resolved[i]]]

\* The ids of the entities a list of detail lines was written from.
Ids(entities) ==
    [i \in 1..Len(entities) |-> entities[i].id]

\* A context that draws a sample whenever the store is not empty.
ContextPicksAlways(store, names, k) ==
    IF store # << >>
    THEN Samples(store, Min(k, Len(store)))
    ELSE { << >> }

\* The samples generate_chapter may draw when no name of the list resolves
\* and the store is not empty; << >> when it draws none.
ContextPicks(store, names, k) ==
    IF Details(store, names) = << >> /\ store # << >>
    THEN Samples(store, Min(k, Len(store)))
    ELSE { << >> }

\* not chapter_content
Falsy(content) ==
    \/ content.kind = "None"
    \/ content.kind = "reply" /\ content.len = 0

\* The templated body written when every attempt has failed.
TemplateContent(entry) ==
    [kind |-> "template", number |-> Get(entry, "number", 0)]

\* f"output/bolum_{chapter.number:03d}.md"
ChapterFile(number) ==
    "output/bolum_00" \o ToString(number) \o ".md"

\* f"backup/vector_db_chapter_{chapter_index+1}.json"
ChapterSnapshot(i) ==
    "backup/vector_db_chapter_" \o ToString(i) \o ".json"

\* The entry generate_chapter works on.
CurrentEntry(o) ==
    o.story_outline[o.chapter_index + 1]

\* Chapter(number=..., ..., content=chapter_content, ...)
NewChapter(entry, content, chars_ref, locs_ref) ==
    [number |-> Get(entry, "number", 0),
     title |-> Get(entry, "title", ""),
     summary |-> Get(entry, "summary", ""),
     content |-> content,
     characters |-> chars_ref,
     locations |-> locs_ref,
     events |-> Get(entry, "events", << >>)]

\* An Event recorded under the number of the chapter that follows.
NewEventOfNextChapter(id, event_name, chapter, heap) ==
    [id |-> id,
     title |-> event_name,
     description |-> "Bolum " \o ToString(chapter.number) \o " olayi: " \o event_name,
     characters_involved |-> chapter.characters,
     location_id |-> IF heap[chapter.locations] # << >>
                     THEN heap[chapter.locations][1] ELSE "",
     preceding_events |-> << >>,
     following_events |-> << >>,
     chapter |-> chapter.number + 1]

\* Event(id=..., title=event_name, ..., chapter=chapter.number)
NewEvent(id, event_name, chapter, heap) ==
    [id |-> id,
     title |-> event_name,
     description |-> "Bolum " \o ToString(chapter.number) \o " olayi: " \o event_name,
     characters_involved |-> chapter.characters,
     location_id |-> IF heap[chapter.locations] # << >>
                     THEN heap[chapter.locations][1] ELSE "",
     preceding_events |-> << >>,
     following_events |-> << >>,
     chapter |-> chapter.number]

\* save_progress's file: every chapter of self.chapters in list order.
Draft(chs) ==
    [i \in 1..Len(chs) |->
        [number |-> chs[i].number, title |-> chs[i].title, content |-> chs[i].content]]

\* The for loop goes on to its next entry; the except of the loop body has
\* logged what was raised.
NextEntry(o) ==
    [o EXCEPT !.chapter_index = @ + 1, !.pc = "loop"]

\* After generate_chapter returned chapter: self.chapters.append, and every
\* fifth chapter and the last one save_progress (whose failed write raises
\* into the except of the loop body) and save_to_file (which swallows it).
AppendChapter(o, chapter, draft_ok, snapshot_ok) ==
    LET appended == [o EXCEPT !.chapters = Append(@, chapter)]
        total_chapters == Len(o.story_outline)
        checkpoint == \/ (o.chapter_index + 1) % CheckpointEvery = 0
                      \/ o.chapter_index = total_chapters - 1
        drafted == TryWrite(appended, draft_ok, "output/kitap_taslak.md",
                            Draft(appended.chapters))
        saved == TryWrite(drafted, snapshot_ok,
                          ChapterSnapshot(o.chapter_index + 1),
                          Snapshot(o.characters, o.locations, o.events, o.lists))
    IN  IF ~checkpoint THEN NextEntry(appended)
        ELSE IF ~draft_ok THEN NextEntry(drafted)
        ELSE NextEntry(saved)

\* generate_chapter from the end of its while loop: the Chapter, one Event
\* for each event title, the chapter's file (a failed write raises OSError
\* into the except of the loop body, so nothing is appended), the return.
FinishChapter(o, content, disk) ==
    LET entry == CurrentEntry(o)
        chapter == NewChapter(entry, content, o.chapter_prompt.characters,
                              o.chapter_prompt.locations)
        titles == Get(entry, "events", << >>)
        with_events ==
            [o EXCEPT !.chapter_content = content,
                      !.events = @ \o [i \in 1..Len(titles) |->
                                          NewEvent(o.next_id + i, titles[i], chapter,
                                                   o.lists)],
                      !.next_id = @ + Len(titles)]
        written ==
            TryWrite(with_events, disk.chapter, ChapterFile(chapter.number),
                     [title |-> chapter.title, content |-> content])
    IN  IF ~disk.chapter THEN NextEntry(written)
        ELSE AppendChapter(written, chapter, disk.draft, disk.snapshot)

\* sorted(events_with_character, key=lambda x: x.chapter, reverse=True):
\* stable, the latest chapter first.
RECURSIVE SortedByChapterDesc(_)
SortedByChapterDesc(evs) ==
    IF evs = << >> THEN << >>
    ELSE LET first == CHOOSE i \in 1..Len(evs) :
                          /\ \A j \in 1..Len(evs) : evs[i].chapter >= evs[j].chapter
                          /\ \A j \in 1..(i - 1) : evs[j].chapter # evs[i].chapter
         IN  << evs[first] >>
                 \o SortedByChapterDesc(SubSeq(evs, 1, first - 1)
                                            \o SubSeq(evs, first + 1, Len(evs)))

\* For each name of the chapter's characters, the three latest events of
\* the store that involve it.
RECURSIVE EventsByName(_, _, _)
EventsByName(evs, names, heap) ==
    IF names = << >> THEN << >>
    ELSE LET with_character ==
                 SelectSeq(evs, LAMBDA e :
                     \E i \in 1..Len(heap[e.characters_involved]) :
                         heap[e.characters_involved][i] = Head(names))
             latest == SortedByChapterDesc(with_character)
         IN  SubSeq(latest, 1, Min(3, Len(latest)))
                 \o EventsByName(evs, Tail(names), heap)

\* related_events[:5], as the prompt shows them: title and description,
\* with the id and the chapter of the Event each line was made from.
RelatedEvents(evs, names, heap) ==
    LET related == EventsByName(evs, names, heap)
    IN  [i \in 1..Min(5, Len(related)) |->
            [id |-> related[i].id, title |-> related[i].title,
             description |-> related[i].description,
             chapter |-> related[i].chapter]]

RECURSIVE SortedByNumberDesc(_)
\* sorted(prev_chapters, key=lambda x: x.number, reverse=True): stable, the
\* highest number first.
SortedByNumberDesc(chs) ==
    IF chs = << >> THEN << >>
    ELSE LET first == CHOOSE i \in 1..Len(chs) :
                          /\ \A j \in 1..Len(chs) : chs[i].number >= chs[j].number
                          /\ \A j \in 1..(i - 1) : chs[j].number # chs[i].number
         IN  << chs[first] >>
                 \o SortedByNumberDesc(SubSeq(chs, 1, first - 1)
                                           \o SubSeq(chs, first + 1, Len(chs)))

\* A recap of the three stored chapters of the lowest numbers.
PreviousChaptersOldest(chs, chapter_num) ==
    LET prev_chapters == SelectSeq(chs, LAMBDA ch : ch.number < chapter_num)
        first_3_chapters == SubSeq(prev_chapters, 1, Min(3, Len(prev_chapters)))
    IN  [i \in 1..Len(first_3_chapters) |->
            [number |-> first_3_chapters[i].number,
             title |-> first_3_chapters[i].title,
             summary |-> first_3_chapters[i].summary]]

\* previous_chapters_context: of the stored chapters of a lower number the
\* three of the highest numbers, listed from the lowest of them upwards,
\* each with its number, title and summary.
PreviousChapters(chs, chapter_num) ==
    LET prev_chapters == SelectSeq(chs, LAMBDA ch : ch.number < chapter_num)
        sorted == SortedByNumberDesc(prev_chapters)
        last_3_chapters == SubSeq(sorted, 1, Min(3, Len(sorted)))
        n == Len(last_3_chapters)
    IN  IF chapter_num > 1 /\ chs # << >>
        THEN [i \in 1..n |->
                 [number |-> last_3_chapters[n + 1 - i].number,
                  title |-> last_3_chapters[n + 1 - i].title,
                  summary |-> last_3_chapters[n + 1 - i].summary]]
        ELSE << >>

\* Which of the three writes of a chapter the disk takes.
DiskOutcomes ==
    [chapter : BOOLEAN, draft : BOOLEAN, snapshot : BOOLEAN]

\* The for loop takes its next entry and generate_chapter runs to its first
\* await: the context is assembled (names that resolve; when none does, a
\* sample of the store, whose names are appended to the entry's list) and
\* the full prompt is sent.
BeginChapter ==
    /\ pc = "loop"
    /\ chapter_index < Len(story_outline)
    /\ LET entry == CurrentEntry(Orch)
           cl == EntryList(entry, "characters", lists)
           ll == EntryList(entry, "locations", cl.lists)
       IN  \E cs \in ContextPicks(characters, cl.lists[cl.ref], 3) :
           \E ls \in ContextPicks(locations, ll.lists[ll.ref], 2) :
               LET heap == [ll.lists EXCEPT ![cl.ref] = @ \o Names(cs),
                                            ![ll.ref] = @ \o Names(ls)]
               IN  Continue([Orch EXCEPT
                       !.lists = heap,
                       !.retry_count = 0,
                       !.chapter_content = [kind |-> "None"],
                       !.chapter_prompt =
                           [kind |-> "full",
                            characters |-> cl.ref,
                            locations |-> ll.ref,
                            character_details |->
                                Ids(Matching(characters, cl.lists[cl.ref])) \o Ids(cs),
                            location_details |->
                                Ids(Matching(locations, ll.lists[ll.ref])) \o Ids(ls),
                            recap |-> PreviousChapters(chapters,
                                                       Get(entry, "number", 0)),
                            events |-> RelatedEvents(events, heap[cl.ref], heap)],
                       !.sleeps = 0,
                       !.gen_calls.chapter = 1,
                       !.pc = "chapter"])

\* A while loop that sleeps and tries again without counting the attempt.
ChapterRetriesForever(o, disk) ==
    [o EXCEPT !.pc = "chapter_sleep"]

\* The except of the while loop: one more retry_count, then the 10 s sleep
\* or, past max_retries, the templated body.
ChapterAttemptFailed(o, disk) ==
    IF o.retry_count + 1 <= ChapterMaxRetries
    THEN [o EXCEPT !.retry_count = @ + 1,
                   !.sleeps = @ + 1,
                   !.pc = "chapter_sleep"]
    ELSE FinishChapter([o EXCEPT !.retry_count = @ + 1,
                                 !.fallback_used = @ \cup {"chapter"}],
                       TemplateContent(CurrentEntry(o)), disk)

\* The reply to a chapter prompt arrives, or generate_content raises.
ChapterResumes ==
    /\ Resumed("chapter")
    /\ \E disk \in DiskOutcomes :
           IF client = "raised"
           THEN Continue(ChapterAttemptFailed(Orch, disk))
           ELSE IF Falsy(result) \/ result.len < MinChapterLength
           THEN Continue(ChapterAttemptFailed([Orch EXCEPT !.chapter_content = result],
                                              disk))
           ELSE Continue(FinishChapter(Orch, result, disk))

\* The 10 s sleep is over: the shorter prompt replaces the full one and the
\* while test runs again; it ends the loop when chapter_content is not empty.
ChapterSleepEnds ==
    /\ pc = "chapter_sleep"
    /\ LET o == [Orch EXCEPT !.chapter_prompt.kind = "reduced",
                             !.chapter_prompt.character_details = << >>,
                             !.chapter_prompt.location_details = << >>,
                             !.chapter_prompt.recap = << >>,
                             !.chapter_prompt.events = << >>]
       IN  IF Falsy(chapter_content)
           THEN Continue([o EXCEPT !.gen_calls.chapter = @ + 1, !.pc = "chapter"])
           ELSE \E disk \in DiskOutcomes :
                    Continue(FinishChapter(o, chapter_content, disk))

\* A loop that may end before it has taken every entry.
LoopEndsEarly ==
    /\ pc = "loop"
    /\ Continue([Orch EXCEPT !.pc = "loop_done"])

\* The for loop has taken every entry: progress_bar.close().
LoopEnds ==
    /\ pc = "loop"
    /\ chapter_index >= Len(story_outline)
    /\ Continue([Orch EXCEPT !.pc = "loop_done"])

ChapterStep ==
    \/ BeginChapter
    \/ ChapterResumes
    \/ ChapterSleepEnds
    \/ LoopEnds

(***************************************************************************)
(* generate_full_story: from one phase to the next, finalize_book, the     *)
(* except of the job, and an interrupt.                                    *)
(***************************************************************************)
\* What main may find when the process starts: the key that --api-key or
\* GEMINI_API_KEY gives (none or an empty one, the placeholder of the
\* example .env, or another text), the file --config names (missing, one
\* that configparser cannot read, or one it can), and whether .env
\* exists. A machine without .env has no key in these runs.
Envs ==
    {e \in [api_key : {"missing", "placeholder", "valid"},
            config : {"missing", "malformed", "valid"},
            dotenv : BOOLEAN] :
        ~e.dotenv => e.api_key = "missing"}

\* main up to the call of generate_full_story: the example .env is written
\* when there is none, a missing or placeholder key is sys.exit(1), a
\* missing config file is create_default_config() and sys.exit(0), a config
\* file that parse_config raises on is the sys.exit(1) of except Exception,
\* and otherwise the generator is built. A write that fails outside the try
\* ends the process on its OSError.
MainStarts(o, disk_ok) ==
    LET dotenv == IF o.env.dotenv THEN o
                  ELSE TryWrite(o, disk_ok, ".env", "your_api_key_here")
        created == TryWrite(dotenv, disk_ok, "theme.config", "default")
    IN  IF ~o.env.dotenv /\ ~disk_ok
        THEN [dotenv EXCEPT !.raised = "OSError", !.exit_code = "1", !.pc = "exited"]
        ELSE IF o.env.api_key # "valid"
        THEN [dotenv EXCEPT !.exit_code = "1", !.pc = "exited"]
        ELSE IF o.env.config = "missing"
        THEN IF disk_ok
             THEN [created EXCEPT !.exit_code = "0", !.pc = "exited"]
             ELSE [created EXCEPT !.raised = "OSError", !.exit_code = "1",
                                  !.pc = "exited"]
        ELSE IF o.env.config = "malformed"
        THEN [dotenv EXCEPT !.raised = "Exception", !.exit_code = "1",
                            !.pc = "exited"]
        ELSE [dotenv EXCEPT !.pc = "start"]

\* The process starts.
Main ==
    /\ pc = "main"
    /\ \E disk_ok \in BOOLEAN : Continue(MainStarts(Orch, disk_ok))

\* create_universe has returned: generate_story_outline builds its prompt
\* from the store and requests the outline.
UniverseReturns ==
    /\ pc = "universe_done"
    /\ Continue([Orch EXCEPT !.pc = "outline", !.gen_calls.outline = 1])

\* generate_story_outline has returned: total_chapters, the progress bar,
\* and the for loop is at its first entry.
OutlineReturns ==
    /\ pc = "outline_done"
    /\ Continue([Orch EXCEPT !.chapter_index = 0, !.pc = "loop"])

\* The loop is over: finalize_book requests the title.
BeginFinalize ==
    /\ pc = "loop_done"
    /\ Continue([Orch EXCEPT !.pc = "title"])

\* An exception of generate_content leaves finalize_book.
FinalizeCallRaised(o) ==
    [o EXCEPT !.raised = "GenerationFailure", !.pc = "job_except"]

\* The title arrives and the foreword is requested.
TitleResumes ==
    /\ Resumed("title")
    /\ IF client = "raised"
       THEN Continue(FinalizeCallRaised(Orch))
       ELSE Continue([Orch EXCEPT !.book.title = result, !.pc = "foreword"])

\* The foreword arrives, the summaries of the characters and of the
\* locations are built, and the appendix is requested.
ForewordResumes ==
    /\ Resumed("foreword")
    /\ IF client = "raised"
       THEN Continue(FinalizeCallRaised(Orch))
       ELSE Continue([Orch EXCEPT !.book.foreword = result, !.pc = "appendix"])

RECURSIVE SortedByNumber(_)
\* sorted(self.chapters, key=lambda c: c.number): stable, ascending.
SortedByNumber(chs) ==
    IF chs = << >> THEN << >>
    ELSE LET least == CHOOSE i \in 1..Len(chs) :
                          /\ \A j \in 1..Len(chs) : chs[i].number <= chs[j].number
                          /\ \A j \in 1..(i - 1) : chs[j].number # chs[i].number
         IN  << chs[least] >>
                 \o SortedByNumber(SubSeq(chs, 1, least - 1)
                                       \o SubSeq(chs, least + 1, Len(chs)))

\* The part of markdown_content that holds the chapters, by number.
ChapterSections(chs) ==
    LET sorted == SortedByNumber(chs)
    IN  [i \in 1..Len(chs) |->
            [section |-> "chapter", number |-> sorted[i].number,
             title |-> sorted[i].title, content |-> sorted[i].content]]

\* The parts that follow the chapters: characters, locations, appendix.
BackMatter(o, appendix) ==
    << [section |-> "characters",
        items |-> [i \in 1..Len(o.characters) |->
                      [name |-> o.characters[i].name,
                       description |-> o.characters[i].description,
                       traits |-> o.characters[i].traits]]],
       [section |-> "locations",
        items |-> [i \in 1..Len(o.locations) |->
                      [name |-> o.locations[i].name,
                       description |-> o.locations[i].description,
                       importance |-> o.locations[i].importance]]],
       [section |-> "appendix", text |-> appendix] >>

\* A document whose chapters come after the appendix.
BookContentChaptersLast(o, appendix) ==
    << [section |-> "title", text |-> o.book.title],
       [section |-> "foreword", text |-> o.book.foreword] >>
        \o BackMatter(o, appendix)
        \o ChapterSections(o.chapters)

\* markdown_content, part after part in the order of the document: title,
\* foreword, the chapters by number, the characters, the locations and the
\* appendix.
BookContent(o, appendix) ==
    << [section |-> "title", text |-> o.book.title],
       [section |-> "foreword", text |-> o.book.foreword] >>
        \o ChapterSections(o.chapters)
        \o BackMatter(o, appendix)

\* The machines a job may run on: HAS_WEASYPRINT, whether the temporary
\* file can be opened, what running pandoc comes to, and whether os.remove
\* of the temporary file succeeds.
Hosts ==
    [weasyprint : BOOLEAN, temp_ok : BOOLEAN,
     pandoc : {"missing", "fails", "succeeds"}, remove_ok : BOOLEAN]

\* The body of the outer try of generate_pdf_from_markdown. With
\* HAS_WEASYPRINT the name HTML, which no import binds, raises NameError,
\* the inner except logs it and pandoc is tried as it is without
\* WeasyPrint: the temporary file, subprocess.run, os.remove under a bare
\* except, and the test of the return code.
ConvertWithPandoc(disk, markdown_content, output_path, host) ==
    LET temp_md_path == output_path \o ".temp.md"
        temp == WriteFile(disk, temp_md_path, markdown_content)
        ran == IF host.pandoc = "succeeds"
               THEN WriteFile(temp, output_path, markdown_content)
               ELSE temp
        cleaned == IF host.remove_ok
                   THEN [n \in DOMAIN ran \ {temp_md_path} |-> ran[n]]
                   ELSE ran
    IN  IF ~host.temp_ok
        THEN [files |-> disk, success |-> "False", raised |-> "OSError"]
        ELSE IF host.pandoc = "missing"
        THEN [files |-> temp, success |-> "False", raised |-> "FileNotFoundError"]
        ELSE [files |-> cleaned,
              success |-> IF host.pandoc = "succeeds" THEN "True" ELSE "False",
              raised |-> "none"]

\* A converter whose failures reach its caller.
GeneratePdfUncaught(disk, markdown_content, output_path, host) ==
    ConvertWithPandoc(disk, markdown_content, output_path, host)

\* generate_pdf_from_markdown: the except Exception of the outer try logs
\* what the body raised and returns False.
GeneratePdfFromMarkdown(disk, markdown_content, output_path, host) ==
    [ConvertWithPandoc(disk, markdown_content, output_path, host)
        EXCEPT !.raised = "none"]

\* The appendix arrives: output/kitap.md is written, then
\* generate_pdf_from_markdown is called and its result logged; an exception
\* on the way propagates to generate_full_story.
AppendixResumes ==
    /\ Resumed("appendix")
    /\ IF client = "raised"
       THEN Continue(FinalizeCallRaised(Orch))
       ELSE LET content == BookContent(Orch, result)
                written == TryWrite(Orch, TRUE, "output/kitap.md", content)
                refused == TryWrite(Orch, FALSE, "output/kitap.md", content)
            IN  \/ Continue([refused EXCEPT !.raised = "OSError",
                                            !.pc = "job_except"])
                \/ \E pdf \in {GeneratePdfFromMarkdown(written.files, content,
                                                        "output/kitap.pdf", host) :
                                    host \in Hosts} :
                           IF pdf.raised # "none"
                           THEN Continue([written EXCEPT !.files = pdf.files,
                                                         !.raised = pdf.raised,
                                                         !.pc = "job_except"])
                           ELSE Continue([written EXCEPT !.files = pdf.files,
                                                         !.pdf_success = pdf.success,
                                                         !.exit_code = "0",
                                                         !.pc = "done"])

\* except Exception of generate_full_story: save_progress(), whose failed
\* write raises in place of the exception handled, then
\* save_to_file("backup/vector_db_error_state.json"), which swallows a
\* failed write, then raise; the except Exception of main is sys.exit(1).
JobExcept ==
    /\ pc = "job_except"
    /\ \E draft_ok, snapshot_ok \in BOOLEAN :
           LET drafted == TryWrite(Orch, draft_ok, "output/kitap_taslak.md",
                                   Draft(chapters))
               saved == TryWrite(drafted, snapshot_ok,
                                 "backup/vector_db_error_state.json",
                                 Snapshot(characters, locations, events, lists))
           IN  IF ~draft_ok
               THEN Continue([drafted EXCEPT !.raised = "OSError", !.exit_code = "1",
                                             !.pc = "aborted"])
               ELSE Continue([saved EXCEPT !.exit_code = "1", !.pc = "aborted"])

\* The awaits of the job: a call of generate_content under way (its worker
\* or its 5 s sleep) and the 10 s sleep of generate_chapter.
Suspended ==
    \/ pc \in CallSites /\ client \in {"first", "second", "sleep5"}
    \/ pc = "chapter_sleep"

\* An interrupt that the except Exception of generate_full_story would catch.
InterruptCaught(o) ==
    [o EXCEPT !.raised = "KeyboardInterrupt", !.pc = "job_except"]

\* What an interrupt leaves of the job: asyncio.run cancels the main task,
\* the await raises CancelledError, which no except Exception catches, and
\* __main__ reports the KeyboardInterrupt and leaves with sys.exit(0).
Interrupted(o) ==
    [o EXCEPT !.raised = "KeyboardInterrupt", !.exit_code = "0",
              !.pc = "interrupted"]

\* Ctrl-C while the job is suspended.
Interrupt ==
    /\ Suspended
    /\ Become(Interrupted(Orch))
    /\ client' = "cancelled"
    /\ UNCHANGED << attempts, inv_temperature, response, result, in_flight >>

JobStep ==
    \/ Main
    \/ UniverseReturns
    \/ OutlineReturns
    \/ BeginFinalize
    \/ TitleResumes
    \/ ForewordResumes
    \/ AppendixResumes
    \/ JobExcept
    \/ Interrupt

(***************************************************************************)
(* generate_vector: the fingerprint of a text.                             *)
(***************************************************************************)
\* hash(text) in an interpreter whose salt is hashseed: one value per text
\* and salt.
Hash(hashseed, text) ==
    LET code == CASE text = "Ayla" -> 1 [] text = "Liman" -> 2 [] OTHER -> 3
    IN  code + 3 * hashseed

\* A generator that random.seed leaves in the state it is in.
SeedIgnored(state, hash_value) ==
    state

\* random.seed(hash_value): the state of the generator is that of the seed.
SeedRandom(state, hash_value) ==
    hash_value % Cardinality(RngStates)

\* random.random() moves the generator on.
NextRandom(state) ==
    (3 * state + 1) % Cardinality(RngStates)

\* [random.random() for _ in range(1536)], shortened to two draws: the
\* numbers drawn from state on.
DrawVector(state) ==
    << state, NextRandom(state) >>

\* generate_vector(text): hash, seed, draw.
GenerateVector ==
    /\ pc = "fingerprint"
    /\ \E t \in Texts :
           /\ returned.calls[t] < MaxCalls
           /\ LET seeded == SeedRandom(process.rng, Hash(process.hashseed, t))
                  vector == DrawVector(seeded)
              IN  Continue([Orch EXCEPT
                      !.process.rng = NextRandom(NextRandom(seeded)),
                      !.returned.run[t] = @ \cup {vector},
                      !.returned.ever[t] = @ \cup {vector},
                      !.returned.calls[t] = @ + 1])

\* Another operation draws from the global generator (random.sample).
RandomDraw ==
    /\ pc = "fingerprint"
    /\ Continue([Orch EXCEPT !.process.rng = NextRandom(@)])

\* The process ends and the program is run again, in a new interpreter.
Restart ==
    /\ pc = "fingerprint"
    /\ \E hs \in HashSeeds, st \in RngStates :
           Continue([Orch EXCEPT
               !.process = [hashseed |-> hs, rng |-> st],
               !.returned.run = [t \in Texts |-> {}],
               !.returned.calls = [t \in Texts |-> 0]])

(***************************************************************************)
(* VectorDatabase: add_* with the vectors, and search_similar_*.           *)
(***************************************************************************)
\* The vectors entities are stored with and searched by (one coordinate in
\* place of 1536).
Points ==
    0..2

\* The distance of IndexFlatL2: squared Euclidean.
SquaredDistance(u, v) ==
    (u - v) * (u - v)

\* The orders in which an index may rank its vectors for a query: by
\* distance, vectors at the same distance in either order.
Rankings(vs, q) ==
    { p \in [1..Len(vs) -> 1..Len(vs)] :
        /\ \A i, j \in 1..Len(vs) : i # j => p[i] # p[j]
        /\ \A i \in 1..(Len(vs) - 1) :
               SquaredDistance(vs[p[i]], q) <= SquaredDistance(vs[p[i + 1]], q) }

\* index.search(np.array([vector]), k)[1][0]: k labels counted from 0, the
\* nearest first, and -1 where the index has no further vector.
Labels(vs, q, k) ==
    { [i \in 1..k |-> IF i <= Len(vs) THEN p[i] - 1 ELSE 0 - 1] : p \in Rankings(vs, q) }

\* list(self.<kind>.values())[i]: a negative i counts from the end.
ValueAt(store, i) ==
    IF i >= 0 THEN store[i + 1] ELSE store[Len(store) + i + 1]

\* distances, indices = index.search(...); the list comprehension over
\* indices[0] with its test i < len(map).  With k = 0 the library raises or
\* returns no label, as its version has it.
SearchIndexed(store, vs, q, k) ==
    IF k = 0
    THEN { [result |-> << >>, labels |-> << >>, exc |-> "none"],
           [result |-> << >>, labels |-> << >>, exc |-> "AssertionError"] }
    ELSE { IF \E i \in 1..k : l[i] < Len(store) /\ (l[i] >= Len(store) \/ l[i] < 0 - Len(store))
           THEN [result |-> << >>, labels |-> l, exc |-> "IndexError"]
           ELSE LET kept == SelectSeq(l, LAMBDA i : i < Len(store))
                IN  [result |-> [j \in 1..Len(kept) |-> ValueAt(store, kept[j])],
                     labels |-> l, exc |-> "none"]
           : l \in Labels(vs, q, k) }

\* A search that asks the index whatever it holds.
SearchUnguarded(store, vs, q, k) ==
    SearchIndexed(store, vs, q, k)

\* search_similar_characters, _locations, _events: [] for an empty index.
Search(store, vs, q, k) ==
    IF Len(vs) = 0
    THEN { [result |-> << >>, labels |-> << >>, exc |-> "none"] }
    ELSE SearchIndexed(store, vs, q, k)

\* The record of a search.
Found(kind, vs, q, k, r) ==
    [kind |-> kind, query |-> q, k |-> k, n |-> Len(vs), result |-> r.result,
     labels |-> r.labels, exc |-> r.exc]

\* An index that takes no vector.
IndexAddNothing(index, vector) ==
    index

\* index.add(np.array([vector])): the index holds one vector more, the last.
IndexAdd(index, vector) ==
    Append(index, vector)

\* The entities a store holds, of every kind.
Stored ==
    Len(characters) + Len(locations) + Len(events)

\* How far a store is followed: where it is searched, with entities of one
\* kind (kind the entities of that kind, others those of the two other
\* kinds); where it is only added to, with MaxAdds entities of any kind.
Room(kind, others) ==
    IF pc = "store"
    THEN Len(kind) < MaxEntities /\ others = << >>
    ELSE Stored < MaxAdds

\* add_character(character, vector)
AddCharacter ==
    /\ pc \in {"store", "adds"}
    /\ Room(characters, locations \o events)
    /\ \E v \in Points :
           Continue([Orch EXCEPT
               !.characters = AddCharacters(@, << [name |-> "Ayla"] >>, next_id),
               !.vectors.character = Append(@, v),
               !.vectors.character_index = IndexAdd(@, v),
               !.next_id = @ + 1])

\* add_location(location, vector).
AddLocation ==
    /\ pc \in {"store", "adds"}
    /\ Room(locations, characters \o events)
    /\ \E v \in Points :
           Continue([Orch EXCEPT
               !.locations = AddLocations(@, << [name |-> "Liman"] >>, next_id),
               !.vectors.location = Append(@, v),
               !.vectors.location_index = IndexAdd(@, v),
               !.next_id = @ + 1])

\* add_event(event, vector).
AddEvent ==
    /\ pc \in {"store", "adds"}
    /\ Room(events, characters \o locations)
    /\ \E v \in Points :
           LET chapter == NewChapter([number |-> 1, title |-> "Bolum 1"],
                                     [kind |-> "reply", len |-> MinChapterLength], 1, 2)
           IN  Continue([Orch EXCEPT
                   !.events = Append(@, NewEvent(next_id + 1, "Olay", chapter, lists)),
                   !.vectors.event = Append(@, v),
                   !.vectors.event_index = IndexAdd(@, v),
                   !.next_id = @ + 1])

\* search_similar_characters(vector, k)
SearchCharacters ==
    /\ pc = "store"
    /\ \E q \in Points, k \in 0..MaxK :
       \E r \in Search(characters, vectors.character_index, q, k) :
           Continue([Orch EXCEPT
               !.found = Found("character", vectors.character_index, q, k, r)])

\* search_similar_locations(vector, k)
SearchLocations ==
    /\ pc = "store"
    /\ \E q \in Points, k \in 0..MaxK :
       \E r \in Search(locations, vectors.location_index, q, k) :
           Continue([Orch EXCEPT
               !.found = Found("location", vectors.location_index, q, k, r)])

\* search_similar_events(vector, k)
SearchEvents ==
    /\ pc = "store"
    /\ \E q \in Points, k \in 0..MaxK :
       \E r \in Search(events, vectors.event_index, q, k) :
           Continue([Orch EXCEPT
               !.found = Found("event", vectors.event_index, q, k, r)])

(***************************************************************************)
(* The checkpoint on its own: save_progress() followed by                  *)
(* save_to_file(name), as the loop and the except of the job call them.    *)
(***************************************************************************)
\* The snapshot a checkpoint writes: tagged with the chapter in the loop,
\* with "error" in the except of the job.
SnapshotName ==
    IF raised = "none" THEN ChapterSnapshot(chapter_index + 1)
    ELSE "backup/vector_db_error_state.json"

\* save_progress(), whose failed open raises past save_to_file, then
\* save_to_file(name), which swallows a failed open.
Checkpoint(o, name, draft_ok, snapshot_ok) ==
    LET drafted == TryWrite(o, draft_ok, "output/kitap_taslak.md", Draft(o.chapters))
        saved == TryWrite(drafted, snapshot_ok, name,
                          Snapshot(o.characters, o.locations, o.events, o.lists))
    IN  IF ~draft_ok THEN drafted ELSE saved

\* The checkpoint runs.
CheckpointRuns ==
    /\ pc = "checkpoint"
    /\ \E draft_ok, snapshot_ok \in BOOLEAN :
           Continue([Checkpoint(Orch, SnapshotName, draft_ok, snapshot_ok)
                        EXCEPT !.pc = "checkpoint_again"])

\* It runs once more, on the same chapters and the same store.
CheckpointRunsAgain ==
    /\ pc = "checkpoint_again"
    /\ \E draft_ok, snapshot_ok \in BOOLEAN :
           Continue([Checkpoint(Orch, SnapshotName, draft_ok, snapshot_ok)
                        EXCEPT !.pc = "checkpoint_done"])

(***************************************************************************)
(* Specifications.                                                         *)
(***************************************************************************)
\* The state after StoryGenerator.__init__: an empty store, no chapter, an
\* idle client.
InitJob ==
    /\ pc = "start"
    /\ client = "idle"
    /\ attempts = 0
    /\ inv_temperature = Temperature
    /\ response = [status |-> "none", text |-> NoText]
    /\ result = NoText
    /\ chapter_count \in 1..MaxChapters
    /\ characters = << >>
    /\ locations = << >>
    /\ events = << >>
    /\ next_id = 0
    /\ characters_json = NoText
    /\ locations_json = NoText
    /\ outline_json = NoText
    /\ retry_count = 0
    /\ characters_processed = FALSE
    /\ gen_calls = [character |-> 0, location |-> 0, outline |-> 0, chapter |-> 0]
    /\ fallback_used = {}
    /\ bracket_free = TRUE
    /\ story_outline = << >>
    /\ lists = << >>
    /\ chapters = << >>
    /\ chapter_index = 0
    /\ chapter_content = [kind |-> "None"]
    /\ chapter_prompt = NoPrompt
    /\ sleeps = 0
    /\ raised = "none"
    /\ files = << >>
    /\ book = [title |-> NoText, foreword |-> NoText]
    /\ denied = {}
    /\ in_flight = 0
    /\ env = GoodEnv
    /\ exit_code = "running"
    /\ vectors = NoVectors
    /\ found = NoSearch
    /\ process = FirstProcess
    /\ returned = NothingReturned
    /\ pdf_success = "none"
    /\ service = FullService

NextUniverse ==
    \/ ClientStep
    \/ UniverseStep

\* create_universe on a new StoryGenerator.
SpecUniverse ==
    InitJob /\ [][NextUniverse]_vars


\* The stores create_universe can leave: each kind parsed from a reply
\* (no record, one record) or filled by its fallback.
StoresAfterUniverse ==
    { [characters |-> AddCharacters(<< >>, cs, 0),
       locations |-> AddLocations(<< >>, ls, Len(cs)),
       next_id |-> Len(cs) + Len(ls)] :
        cs \in { << >>, << ObjectOf("character", "a") >>, DefaultCharacters },
        ls \in { << >>, << ObjectOf("location", "a") >>, DefaultLocations } }

\* generate_story_outline is about to be called on a store that
\* create_universe has filled.
InitOutline ==
    /\ pc = "outline_start"
    /\ client = "idle"
    /\ attempts = 0
    /\ inv_temperature = Temperature
    /\ response = [status |-> "none", text |-> NoText]
    /\ result = NoText
    /\ chapter_count \in 1..MaxChapters
    /\ \E st \in StoresAfterUniverse :
           /\ characters = st.characters
           /\ locations = st.locations
           /\ next_id = st.next_id
    /\ events = << >>
    /\ characters_json = NoText
    /\ locations_json = NoText
    /\ outline_json = NoText
    /\ retry_count = 0
    /\ characters_processed = TRUE
    /\ gen_calls = [character |-> 0, location |-> 0, outline |-> 0, chapter |-> 0]
    /\ fallback_used = {}
    /\ bracket_free = TRUE
    /\ story_outline = << >>
    /\ lists = << >>
    /\ chapters = << >>
    /\ chapter_index = 0
    /\ chapter_content = [kind |-> "None"]
    /\ chapter_prompt = NoPrompt
    /\ sleeps = 0
    /\ raised = "none"
    /\ files = << >>
    /\ book = [title |-> NoText, foreword |-> NoText]
    /\ denied = {}
    /\ in_flight = 0
    /\ env = GoodEnv
    /\ exit_code = "running"
    /\ vectors = NoVectors
    /\ found = NoSearch
    /\ process = FirstProcess
    /\ returned = NothingReturned
    /\ pdf_success = "none"
    /\ service = FullService

NextOutline ==
    \/ ClientStep
    \/ OutlineStep

\* generate_story_outline on a filled store.
SpecOutline ==
    InitOutline /\ [][NextOutline]_vars

NextRecovery ==
    \/ ClientStep
    \/ UniverseStep
    \/ OutlineStep

\* The three recoveries of structured replies: create_universe on a new
\* StoryGenerator, and generate_story_outline on a filled store.
SpecRecovery ==
    (InitJob \/ InitOutline) /\ [][NextRecovery]_vars


\* The outlines generate_story_outline can return on the stores of
\* StoresAfterUniverse: a store with the normalized reply text, or with
\* "default" for the default outline (its samples the first names).
OutlineCases ==
    LET Store(cs, ls) ==
            [characters |-> AddCharacters(<< >>, cs, 0),
             locations |-> AddLocations(<< >>, ls, Len(cs)),
             next_id |-> Len(cs) + Len(ls)]
        parsed == Store(<< ObjectOf("character", "a") >>, << ObjectOf("location", "a") >>)
        defaults == Store(DefaultCharacters, DefaultLocations)
        empty == Store(<< >>, << >>)
    IN  { [store |-> defaults, text |-> << "default" >>],
          [store |-> parsed, text |-> << "[", "a", "b", "]" >>],
          [store |-> parsed, text |-> << "[", "e", "]" >>],
          [store |-> empty, text |-> << "[", "a", "]" >>],
          [store |-> defaults, text |-> << "[", "a", "]" >>] }

\* What generate_story_outline returns in case c for n chapters.
OutlineOf(c, n) ==
    IF c.text = << "default" >>
    THEN DefaultOutline(
             [i \in 1..n |->
                 << SubSeq(Names(c.store.characters), 1, Min(3, Len(c.store.characters))),
                    SubSeq(Names(c.store.locations), 1, Min(2, Len(c.store.locations))) >>],
             1, n, << >>)
    ELSE LET r == NormalizeOutline(JsonLoads(CleanJson(c.text)), n, << >>)
         IN  [entries |-> r.outline, lists |-> r.lists]

\* generate_story_outline has returned and the for loop of
\* generate_full_story is about to take its first entry.
InitChapters ==
    /\ pc = "loop"
    /\ client = "idle"
    /\ attempts = 0
    /\ inv_temperature = Temperature
    /\ response = [status |-> "none", text |-> NoText]
    /\ result = NoText
    /\ chapter_count \in 1..MaxChapters
    /\ \E c \in OutlineCases :
           /\ characters = c.store.characters
           /\ locations = c.store.locations
           /\ next_id = c.store.next_id
           /\ story_outline = OutlineOf(c, chapter_count).entries
           /\ lists = OutlineOf(c, chapter_count).lists
    /\ events = << >>
    /\ characters_json = NoText
    /\ locations_json = NoText
    /\ outline_json = NoText
    /\ retry_count = 0
    /\ characters_processed = TRUE
    /\ gen_calls = [character |-> 0, location |-> 0, outline |-> 0, chapter |-> 0]
    /\ fallback_used = {}
    /\ bracket_free = TRUE
    /\ chapters = << >>
    /\ chapter_index = 0
    /\ chapter_content = [kind |-> "None"]
    /\ chapter_prompt = NoPrompt
    /\ sleeps = 0
    /\ raised = "none"
    /\ files = << >>
    /\ book = [title |-> NoText, foreword |-> NoText]
    /\ denied = {}
    /\ in_flight = 0
    /\ env = GoodEnv
    /\ exit_code = "running"
    /\ vectors = NoVectors
    /\ found = NoSearch
    /\ process = FirstProcess
    /\ returned = NothingReturned
    /\ pdf_success = "none"
    /\ service = FullService

NextChapters ==
    \/ ClientStep
    \/ ChapterStep

\* The chapter loop of generate_full_story on a returned outline.
SpecChapters ==
    InitChapters /\ [][NextChapters]_vars

\* A service whose every reply is well formed and that never fails.
SteadyService ==
    LET Good == << "[", "a", "b", "]" >>
    IN  [character |-> {Good}, location |-> {Good}, outline |-> {Good},
         chapter |-> { [kind |-> "reply", len |-> MinChapterLength] },
         faults |-> {}]

\* The services a whole job is run against: each gives the replies of
\* one situation and fails only at some calls.
Profiles ==
    LET Good == << "[", "a", "b", "]" >>
        One == << "[", "a", "]" >>
        Base == SteadyService
    IN  { \* every list arrives well formed; chapters are long, short, empty or fail
          [Base EXCEPT !.chapter = ChapterReplies, !.faults = {"chapter"}],
          \* the character list and the location list need repair
          [Base EXCEPT !.character = {<< "w" >>, Good},
                       !.location = {<< "w", "[", "a", "]", "w" >>, Good}],
          \* the outline needs repair, on a store of one character and one location
          [Base EXCEPT !.character = {<< "w", "[", "a", "]", "w" >>},
                       !.location = {One},
                       !.outline = {<< "[", "a" >>, Good}],
          \* the outline is empty or its call fails, and the calls of finalize_book fail
          [Base EXCEPT !.outline = {<< "[", "]" >>, Good},
                       !.faults = {"outline", "title", "foreword", "appendix"}],
          \* the calls of create_universe fail or their replies are no arrays
          [Base EXCEPT !.character = {<< "w" >>, << "n" >>},
                       !.location = {<< "w" >>, << "n" >>, Good},
                       !.outline = {<< "[", "b", "]" >>},
                       !.faults = {"plot", "characters", "characters_fix",
                                   "locations", "locations_fix"}] }

\* The process as main finds it, with the service of the run: a short book
\* against each service, a long book against the steady one, and a startup
\* that fails on a short book against the steady service.
InitRun ==
    /\ pc = "main"
    /\ client = "idle"
    /\ attempts = 0
    /\ inv_temperature = Temperature
    /\ response = [status |-> "none", text |-> NoText]
    /\ result = NoText
    /\ characters = << >>
    /\ locations = << >>
    /\ events = << >>
    /\ next_id = 0
    /\ characters_json = NoText
    /\ locations_json = NoText
    /\ outline_json = NoText
    /\ retry_count = 0
    /\ characters_processed = FALSE
    /\ gen_calls = [character |-> 0, location |-> 0, outline |-> 0, chapter |-> 0]
    /\ fallback_used = {}
    /\ bracket_free = TRUE
    /\ story_outline = << >>
    /\ lists = << >>
    /\ chapters = << >>
    /\ chapter_index = 0
    /\ chapter_content = [kind |-> "None"]
    /\ chapter_prompt = NoPrompt
    /\ sleeps = 0
    /\ raised = "none"
    /\ files = << >>
    /\ book = [title |-> NoText, foreword |-> NoText]
    /\ denied = {}
    /\ in_flight = 0
    /\ exit_code = "running"
    /\ vectors = NoVectors
    /\ found = NoSearch
    /\ process = FirstProcess
    /\ returned = NothingReturned
    /\ pdf_success = "none"
    /\ \/ /\ chapter_count \in 1..MaxChapters
          /\ service \in Profiles
          /\ env = GoodEnv
       \/ /\ chapter_count \in (MaxChapters + 1)..MaxBook
          /\ service = SteadyService
          /\ env = GoodEnv
       \/ /\ chapter_count \in 1..MaxChapters
          /\ service = SteadyService
          /\ env \in Envs \ {GoodEnv}

NextJob ==
    \/ ClientStep
    \/ UniverseStep
    \/ OutlineResumes
    \/ OutlineFixResumes
    \/ ChapterStep
    \/ JobStep

\* generate_full_story, from create_universe to the end of the job.
SpecJob ==
    InitRun /\ [][NextJob]_vars

\* The same job when no step that can be taken is put off for ever: every
\* invocation of the service returns or fails, every sleep ends, and the
\* event loop runs the orchestrator whenever its await is over.
SpecJobFair ==
    SpecJob /\ WF_vars(NextJob)

\* Chapters, a store and a disk as a job has them when a checkpoint is due.
CheckpointCases ==
    LET heap == << << "Ayla" >>, << "Liman" >> >>
        body == [kind |-> "reply", len |-> MinChapterLength]
        first == NewChapter([number |-> 1, title |-> "Bolum 1",
                             events |-> << "Olay" >>], body, 1, 2)
        second == NewChapter([number |-> 2, title |-> "Bolum 2"],
                             TemplateContent([number |-> 2]), 1, 2)
        stale == WriteFile(WriteFile(<< >>, "output/kitap_taslak.md", Draft(<< first >>)),
                           ChapterSnapshot(1), Snapshot(<< >>, << >>, << >>, heap))
    IN  [chapters : {<< >>, << first >>, << second >>, << first, second >>},
         characters : {<< >>, AddCharacters(<< >>, DefaultCharacters, 0)},
         locations : {<< >>, AddLocations(<< >>, DefaultLocations, 3)},
         events : {<< >>, << NewEvent(7, "Olay", first, heap) >>},
         lists : {heap},
         files : {<< >>, stale},
         raised : {"none", "ValueError"}]

\* A checkpoint is about to run.
InitCheckpoint ==
    /\ pc = "checkpoint"
    /\ client = "idle"
    /\ attempts = 0
    /\ inv_temperature = Temperature
    /\ response = [status |-> "none", text |-> NoText]
    /\ result = NoText
    /\ chapter_count = MaxChapters
    /\ \E c \in CheckpointCases :
           /\ chapters = c.chapters
           /\ characters = c.characters
           /\ locations = c.locations
           /\ events = c.events
           /\ lists = c.lists
           /\ files = c.files
           /\ raised = c.raised
    /\ chapter_index \in 0..(MaxChapters - 1)
    /\ next_id = 7
    /\ story_outline = << >>
    /\ characters_json = NoText
    /\ locations_json = NoText
    /\ outline_json = NoText
    /\ retry_count = 0
    /\ characters_processed = TRUE
    /\ gen_calls = [character |-> 0, location |-> 0, outline |-> 0, chapter |-> 0]
    /\ fallback_used = {}
    /\ bracket_free = TRUE
    /\ chapter_content = [kind |-> "None"]
    /\ chapter_prompt = NoPrompt
    /\ sleeps = 0
    /\ book = [title |-> NoText, foreword |-> NoText]
    /\ denied = {}
    /\ in_flight = 0
    /\ env = GoodEnv
    /\ exit_code = "running"
    /\ vectors = NoVectors
    /\ found = NoSearch
    /\ process = FirstProcess
    /\ returned = NothingReturned
    /\ pdf_success = "none"
    /\ service = SteadyService

NextCheckpoint ==
    \/ CheckpointRuns
    \/ CheckpointRunsAgain

\* The checkpoint, twice in succession.
SpecCheckpoint ==
    InitCheckpoint /\ [][NextCheckpoint]_vars

\* An interpreter has started and no fingerprint has been asked for.
InitFingerprint ==
    /\ pc = "fingerprint"
    /\ client = "idle"
    /\ attempts = 0
    /\ inv_temperature = Temperature
    /\ response = [status |-> "none", text |-> NoText]
    /\ result = NoText
    /\ chapter_count = MaxChapters
    /\ chapters = << >>
    /\ characters = << >>
    /\ locations = << >>
    /\ events = << >>
    /\ lists = << >>
    /\ files = << >>
    /\ raised = "none"
    /\ chapter_index = 0
    /\ next_id = 0
    /\ story_outline = << >>
    /\ characters_json = NoText
    /\ locations_json = NoText
    /\ outline_json = NoText
    /\ retry_count = 0
    /\ characters_processed = TRUE
    /\ gen_calls = [character |-> 0, location |-> 0, outline |-> 0, chapter |-> 0]
    /\ fallback_used = {}
    /\ bracket_free = TRUE
    /\ chapter_content = [kind |-> "None"]
    /\ chapter_prompt = NoPrompt
    /\ sleeps = 0
    /\ book = [title |-> NoText, foreword |-> NoText]
    /\ denied = {}
    /\ in_flight = 0
    /\ env = GoodEnv
    /\ exit_code = "running"
    /\ vectors = NoVectors
    /\ found = NoSearch
    /\ \E hs \in HashSeeds, st \in RngStates :
           process = [hashseed |-> hs, rng |-> st]
    /\ returned = NothingReturned
    /\ pdf_success = "none"
    /\ service = SteadyService

NextFingerprint ==
    \/ GenerateVector
    \/ RandomDraw
    \/ Restart

\* generate_vector among other draws, in one process and the next.
SpecFingerprint ==
    InitFingerprint /\ [][NextFingerprint]_vars

\* VectorDatabase.__init__: an empty store.
InitStore ==
    /\ pc = "store"
    /\ client = "idle"
    /\ attempts = 0
    /\ inv_temperature = Temperature
    /\ response = [status |-> "none", text |-> NoText]
    /\ result = NoText
    /\ chapter_count = MaxChapters
    /\ chapters = << >>
    /\ characters = << >>
    /\ locations = << >>
    /\ events = << >>
    /\ lists = << << "Ayla" >>, << "Liman" >> >>
    /\ files = << >>
    /\ raised = "none"
    /\ chapter_index = 0
    /\ next_id = 0
    /\ story_outline = << >>
    /\ characters_json = NoText
    /\ locations_json = NoText
    /\ outline_json = NoText
    /\ retry_count = 0
    /\ characters_processed = TRUE
    /\ gen_calls = [character |-> 0, location |-> 0, outline |-> 0, chapter |-> 0]
    /\ fallback_used = {}
    /\ bracket_free = TRUE
    /\ chapter_content = [kind |-> "None"]
    /\ chapter_prompt = NoPrompt
    /\ sleeps = 0
    /\ book = [title |-> NoText, foreword |-> NoText]
    /\ denied = {}
    /\ in_flight = 0
    /\ env = GoodEnv
    /\ exit_code = "running"
    /\ vectors = NoVectors
    /\ found = NoSearch
    /\ process = FirstProcess
    /\ returned = NothingReturned
    /\ pdf_success = "none"
    /\ service = SteadyService

NextStore ==
    \/ AddCharacter
    \/ AddLocation
    \/ AddEvent
    \/ SearchCharacters
    \/ SearchLocations
    \/ SearchEvents

\* A store that is filled and searched.
SpecStore ==
    InitStore /\ [][NextStore]_vars

\* VectorDatabase.__init__ before a sequence of add_character, add_location
\* and add_event in any order.
InitAdds ==
    /\ pc = "adds"
    /\ client = "idle"
    /\ attempts = 0
    /\ inv_temperature = Temperature
    /\ response = [status |-> "none", text |-> NoText]
    /\ result = NoText
    /\ chapter_count = MaxChapters
    /\ chapters = << >>
    /\ characters = << >>
    /\ locations = << >>
    /\ events = << >>
    /\ lists = << << "Ayla" >>, << "Liman" >> >>
    /\ files = << >>
    /\ raised = "none"
    /\ chapter_index = 0
    /\ next_id = 0
    /\ story_outline = << >>
    /\ characters_json = NoText
    /\ locations_json = NoText
    /\ outline_json = NoText
    /\ retry_count = 0
    /\ characters_processed = TRUE
    /\ gen_calls = [character |-> 0, location |-> 0, outline |-> 0, chapter |-> 0]
    /\ fallback_used = {}
    /\ bracket_free = TRUE
    /\ chapter_content = [kind |-> "None"]
    /\ chapter_prompt = NoPrompt
    /\ sleeps = 0
    /\ book = [title |-> NoText, foreword |-> NoText]
    /\ denied = {}
    /\ in_flight = 0
    /\ env = GoodEnv
    /\ exit_code = "running"
    /\ vectors = NoVectors
    /\ found = NoSearch
    /\ process = FirstProcess
    /\ returned = NothingReturned
    /\ pdf_success = "none"
    /\ service = SteadyService

NextAdds ==
    \/ AddCharacter
    \/ AddLocation
    \/ AddEvent

\* A store that entities of every kind are added to.
SpecAdds ==
    InitAdds /\ [][NextAdds]_vars

(***************************************************************************)
(* The claims.                                                             *)
(***************************************************************************)
\* The text, cleaned as the outline loop cleans it, parses as a JSON array
\* whose elements are all records.
IsArrayOfRecords(t) ==
    LET v == JsonLoads(CleanJson(t))
    IN  /\ v.ok
        /\ v.type = "list"
        /\ \A i \in 1..Len(v.items) : IsDict(v.items[i])

\* generate_story_outline is over for a reason other than a failed write
\* or a failed generation call.
OutlineOver ==
    /\ pc \in {"outline_done", "job_except"}
    /\ raised \notin {"OSError", "GenerationFailure"}

\* C1: whenever the outline reply parses as a JSON array of k records
\* (k < N, k = 0 included, k = N, k > N), generate_story_outline returns an
\* outline of exactly N entries whose numbers are 1..N in order.
C1_OutlineNormalized ==
    (OutlineOver /\ IsArrayOfRecords(outline_json))
        => /\ pc = "outline_done"
           /\ Len(story_outline) = chapter_count
           /\ \A i \in 1..Len(story_outline) : story_outline[i].number = i

\* C2: whatever text the service returns for the character list, the
\* location list or the outline, no exception caused by the reply's content
\* leaves the phase (only a failed write or a failed generation call may),
\* and a returned outline has its N entries.
C2_NeverHalts ==
    /\ raised \in {"none", "OSError", "GenerationFailure"}
    /\ pc = "outline_done" => Len(story_outline) = chapter_count

\* The chapter content is a service reply of the minimum length or more.
Accepted(content) ==
    content.kind = "reply" /\ content.len >= MinChapterLength

\* generate_chapter has been left for the entry at chapter_index.
ChapterOver ==
    pc \in {"loop", "loop_done"} /\ chapter_index > 0

\* C3: when no attempt of chapter i produced an acceptable reply, the job
\* stores a Chapter i whose content is the templated fallback and goes on,
\* and when the loop ends the number of stored chapters is N.
C3_LoopContinues ==
    /\ (ChapterOver /\ ~Accepted(chapter_content))
           => /\ chapters # << >>
              /\ chapters[Len(chapters)].number = story_outline[chapter_index].number
              /\ chapters[Len(chapters)].content.kind = "template"
    /\ pc = "loop_done" => Len(chapters) = chapter_count

\* C4: when the chapter loop has ended, the numbers of the stored Chapters
\* are those of the outline, exactly 1..N, none missing and none twice.
C4_ChapterNumbers ==
    pc = "loop_done"
        => /\ Len(chapters) = Len(story_outline)
           /\ \A i \in 1..Len(chapters) : chapters[i].number = i
           /\ { chapters[i].number : i \in 1..Len(chapters) } = 1..chapter_count
           /\ { story_outline[i].number : i \in 1..Len(story_outline) }
                  = 1..chapter_count

\* C5: the content of every stored Chapter is a service reply of at least
\* 500 characters or the templated fallback body, never a shorter reply.
C5_ShortReplyRejected ==
    \A i \in 1..Len(chapters) :
        \/ chapters[i].content.kind = "template"
        \/ Accepted(chapters[i].content)

ClientInvariant ==
    /\ attempts <= 2
    /\ client = "first" => attempts = 1 /\ inv_temperature = Temperature
    /\ client = "sleep5" => attempts = 1 /\ response.status = "error"
    /\ client = "second"
           => attempts = 2 /\ inv_temperature = (Temperature * 9) \div 10
    /\ client = "raised" => attempts = 2 /\ response.status = "error"
    /\ client = "returned" => response.status = "ok" /\ result = response.text

\* What holds of every step of a generate_content call.
ClientTransition ==
    /\ (client' = "sleep5" /\ client # "sleep5")
           => client = "first" /\ response.status = "error"
    /\ (client' = "second" /\ client # "second")
           => client = "sleep5" /\ attempts' = attempts + 1
    /\ (client' = "raised" /\ client # "raised")
           => client = "second" /\ response.status = "error"
    /\ (client' = "returned" /\ client # "returned")
           => /\ client \in {"first", "second"}
              /\ response.status = "ok"
              /\ result' = response.text
    /\ attempts' # attempts
           => \/ client' = "first" /\ attempts' = 1
              \/ client = "sleep5" /\ attempts' = attempts + 1

\* C7: generate_content makes at most two service invocations per call; the
\* second is made only after the first failed and the 5 s sleep, at
\* temperature x 0.9; it raises only when the second failed too, and returns
\* the text of the invocation that succeeded.
C7_AtMostTwoInvocations ==
    []ClientInvariant /\ [][ClientTransition]_vars

\* The retry succeeded and its text is returned.
C7_Witness ==
    /\ client = "returned"
    /\ attempts = 2
    /\ inv_temperature = (Temperature * 9) \div 10
    /\ result = response.text
    /\ result # NoText

\* What holds in every state of the three recovery loops: no more than 3
\* generation calls for one structured reply, and a repair call awaited
\* only when every reply so far has failed to parse.
RecoveryInvariant ==
    /\ gen_calls.character <= 3
    /\ gen_calls.location <= 3
    /\ gen_calls.outline <= 3
    /\ pc = "characters_fix"
           => /\ ~JsonLoads(CleanJson(characters_json)).ok
              /\ retry_count = gen_calls.character - 1
    /\ pc = "locations_fix"
           => /\ ~JsonLoads(locations_json).ok
              /\ retry_count = gen_calls.location - 1
    /\ pc = "outline_fix"
           => /\ ~JsonLoads(CleanJson(outline_json)).ok
              /\ retry_count = gen_calls.outline - 1

\* The await of the repair call of a kind.
FixSite(kind) ==
    IF kind = "character" THEN "characters_fix"
    ELSE IF kind = "location" THEN "locations_fix"
    ELSE "outline_fix"

\* A step that takes the fallback of a kind is the one in which the reply
\* to the kind's third call fails to parse, as the two before it did.
FallbackTransition ==
    \A kind \in {"character", "location", "outline"} :
        (kind \in fallback_used' /\ kind \notin fallback_used)
            => /\ pc = FixSite(kind)
               /\ gen_calls[kind] = 3
               /\ gen_calls'[kind] = 3
               /\ retry_count = 2
               /\ retry_count' = 3

\* C8: the recovery of a character list, a location list or an outline
\* makes at most 3 generation calls, issues no repair call once a parse has
\* succeeded, and takes the fallback only at the third consecutive parse
\* failure.
C8_BoundedRepair ==
    []RecoveryInvariant /\ [][FallbackTransition]_vars

\* Both loops of create_universe ended in their fallback after 3 calls each.
C8_Witness ==
    /\ pc = "universe_done"
    /\ fallback_used = {"character", "location"}
    /\ gen_calls.character = 3
    /\ gen_calls.location = 3

\* C9: when every reply of a recovery held no "[" and no "]", the recovery
\* ends in the fallback of its kind after exactly 3 generation calls.
C9_DefaultAfterThree ==
    /\ (pc = "locations" /\ bracket_free)
           => /\ "character" \in fallback_used
              /\ gen_calls.character = 3
              /\ Names(characters) = Names(DefaultCharacters)
    /\ (pc = "universe_done" /\ bracket_free)
           => /\ "location" \in fallback_used
              /\ gen_calls.location = 3
    /\ (OutlineOver /\ bracket_free)
           => /\ "outline" \in fallback_used
              /\ gen_calls.outline = 3
              /\ Len(story_outline) = chapter_count

\* The text is a JSON array with prose before it or after it.
WrappedArray(t) ==
    LET v == JsonLoads(CleanJson(t))
    IN  /\ CleanJson(t) # t
        /\ v.ok
        /\ v.type = "list"

\* C10: a reply that is a valid JSON array with prose around it is
\* extracted as it is: no repair call is issued for it and no fallback is
\* taken on it, for the character list, the location list and the outline.
C10_ProseWrappedExtracted ==
    /\ pc = "characters_fix" => ~WrappedArray(characters_json)
    /\ pc = "locations_fix" => ~WrappedArray(locations_json)
    /\ pc = "outline_fix" => ~WrappedArray(outline_json)
    /\ (pc = "locations" /\ "character" \in fallback_used)
           => ~WrappedArray(characters_json)
    /\ (pc = "universe_done" /\ "location" \in fallback_used)
           => ~WrappedArray(locations_json)
    /\ (pc = "outline_done" /\ "outline" \in fallback_used)
           => ~WrappedArray(outline_json)

(***************************************************************************)
(* The job as a whole: create_universe's except, the except of              *)
(* generate_full_story, the checkpoints, the order of the phases.           *)
(***************************************************************************)
UniverseSites ==
    {"plot", "characters", "characters_fix", "locations", "locations_fix"}

\* generate_content has handed create_universe a failure, or a reply that
\* parses and is not a list of objects.
Unrecoverable ==
    /\ pc \in UniverseSites
    /\ client \in {"returned", "raised"}
    /\ \/ client = "raised"
       \/ /\ pc \in {"characters", "characters_fix"}
          /\ ProcessCharacters(result).exc \notin {"none", "JSONDecodeError"}
       \/ /\ pc \in {"locations", "locations_fix"}
          /\ ProcessLocations(result).exc \notin {"none", "JSONDecodeError"}

\* Every default character and every default location is in the store.
DefaultsStored ==
    /\ \A d \in 1..Len(DefaultCharacters) :
           \E i \in 1..Len(characters) :
               NewCharacter(characters[i].id, DefaultCharacters[d]) = characters[i]
    /\ \A d \in 1..Len(DefaultLocations) :
           \E i \in 1..Len(locations) :
               NewLocation(locations[i].id, DefaultLocations[d]) = locations[i]

\* C11: when a call of create_universe fails or its reply has an unexpected
\* shape, create_universe returns with no exception raised and with the
\* default characters and the default locations in the store, and from the
\* return of create_universe the job goes on to request the outline.
C11_DefaultUniverse ==
    [][/\ Unrecoverable
          => /\ pc' = "universe_done"
             /\ raised' = "none"
             /\ "universe" \in fallback_used'
             /\ DefaultsStored'
       /\ pc = "universe_done"
          => /\ pc' = "outline"
             /\ raised' = "none"
             /\ characters' = characters
             /\ locations' = locations]_vars

\* The outline is requested after the default universe was created.
C11_Witness ==
    /\ pc = "outline"
    /\ "universe" \in fallback_used
    /\ DefaultsStored

\* The file name holds content, or its open was refused by the disk.
WrittenOrDenied(name, content) ==
    \/ name \in DOMAIN files /\ files[name] = content
    \/ name \in denied

\* C12: when the job has aborted on an exception that left the outline
\* phase, the chapter loop or finalize_book, the draft of every stored
\* chapter and the snapshot "error" of the store have both been written,
\* as far as the disk took the write.
C12_AbortCheckpoint ==
    pc = "aborted"
        => /\ WrittenOrDenied("output/kitap_taslak.md", Draft(chapters))
           /\ WrittenOrDenied("backup/vector_db_error_state.json",
                              Snapshot(characters, locations, events, lists))

\* The chapter generate_chapter returned is appended in this step and a
\* checkpoint is due after it.
CheckpointDue ==
    /\ Len(chapters') = Len(chapters) + 1
    /\ \/ (chapter_index + 1) % CheckpointEvery = 0
       \/ chapter_index = Len(story_outline) - 1

\* C13: save_progress and save_to_file never raise to their caller.  In
\* the loop, the snapshot of a checkpoint is therefore attempted whatever
\* became of the draft; in the except of the job, the exception handled is
\* the one raised again.
C13_CheckpointNeverRaises ==
    [][/\ CheckpointDue
          => (\/ ChapterSnapshot(chapter_index + 1) \in DOMAIN files'
              \/ ChapterSnapshot(chapter_index + 1) \in denied')
       /\ pc = "job_except" => raised' = raised]_vars

\* The for loop is over: finalize_book is about to run, runs or has run.
Finalizing ==
    pc \in {"loop_done", "title", "foreword", "appendix", "done"}

\* save_to_file was called for the snapshot of chapter i.
SnapshotTriggered(i) ==
    \/ ChapterSnapshot(i) \in DOMAIN files
    \/ ChapterSnapshot(i) \in denied

\* C14: once the loop over the N entries of the outline is over, the
\* checkpoint of chapter i has been triggered exactly for the i of 1..N
\* that are multiples of 5 or equal to N.
C14_CheckpointSchedule ==
    Finalizing
        => \A i \in 1..(MaxBook + 1) :
               SnapshotTriggered(i)
                   <=> /\ i <= Len(story_outline)
                       /\ (i % CheckpointEvery = 0 \/ i = Len(story_outline))

\* The disk holds the draft of the chapters and the snapshot of the store
\* under the names of this checkpoint.
Checkpointed ==
    /\ "output/kitap_taslak.md" \in DOMAIN files
    /\ files["output/kitap_taslak.md"] = Draft(chapters)
    /\ SnapshotName \in DOMAIN files
    /\ files[SnapshotName] = Snapshot(characters, locations, events, lists)

\* C15: a checkpoint whose writes the disk takes leaves the draft and the
\* snapshot of its tag with the current contents in place of what the
\* files held, and adds no other file; a checkpoint run on chapters and a
\* store that are already checkpointed under the same tag leaves the disk
\* as it is.
C15_CheckpointIdempotent ==
    [][/\ (pc \in {"checkpoint", "checkpoint_again"} /\ denied' = {})
          => /\ Checkpointed'
             /\ DOMAIN files' = DOMAIN files \cup {"output/kitap_taslak.md", SnapshotName}
       /\ (pc \in {"checkpoint", "checkpoint_again"} /\ Checkpointed)
          => files' = files]_vars

\* Both runs of the checkpoint were taken by the disk.
C15_Witness ==
    /\ pc = "checkpoint_done"
    /\ denied = {}
    /\ Checkpointed
    /\ chapters # << >>
    /\ SnapshotName = ChapterSnapshot(1)

\* C16: a write that the disk refuses (chapter file, outline backup, draft,
\* snapshot, output/kitap.md) raises nothing out of the step it is part of,
\* and the step goes on: the chapter whose file was refused is still stored.
C16_DiskFailureSwallowed ==
    [][denied' # denied
          => /\ raised' = raised
             /\ (pc \in {"chapter", "chapter_sleep"}
                 /\ (denied' \ denied) \cap {ChapterFile(i) : i \in 0..(MaxBook + 1)} # {})
                => Len(chapters') = Len(chapters) + 1]_vars

\* The phase of generate_full_story a position belongs to: 0 before it is
\* called, 1 create_universe, 2 generate_story_outline, 3 the for loop,
\* 4 finalize_book, 5 done.
PhaseOf(p) ==
    IF p = "main" THEN 0
    ELSE IF p \in {"start", "universe_done"} \cup UniverseSites THEN 1
    ELSE IF p \in {"outline", "outline_fix", "outline_done"} THEN 2
    ELSE IF p \in {"loop", "chapter", "chapter_sleep"} THEN 3
    ELSE IF p \in {"loop_done", "title", "foreword", "appendix"} THEN 4
    ELSE 5

\* The job has ended on an exception or on an interrupt, or was not started.
Halted(p) ==
    p \in {"job_except", "aborted", "interrupted", "exited"}

\* C17: the job goes through create_universe, generate_story_outline, the
\* loop, finalize_book and the end in this order, a step staying in its phase
\* or entering the next one; the loop takes the entries of the outline one
\* after the other, entry i carrying number i and being entered once; and
\* finalize_book starts only when all N entries have been taken.
C17_PhaseOrder ==
    [][/\ ~Halted(pc) /\ ~Halted(pc')
          => PhaseOf(pc') \in {PhaseOf(pc), PhaseOf(pc) + 1}
       /\ Halted(pc) => Halted(pc')
       /\ (pc = "loop" /\ pc' = "chapter")
          => /\ chapter_index' = chapter_index
             /\ Get(story_outline[chapter_index + 1], "number", 0) = chapter_index + 1
       /\ (pc \in {"chapter", "chapter_sleep"} /\ pc' = "loop")
          => chapter_index' = chapter_index + 1
       /\ (pc' = "chapter" /\ pc # "loop") => pc \in {"chapter", "chapter_sleep"}
       /\ ~(pc \in {"chapter", "chapter_sleep"} /\ pc' = "loop")
          => (chapter_index' = chapter_index \/ pc = "outline_done")
       /\ (PhaseOf(pc) = 3 /\ PhaseOf(pc') = 4 /\ ~Halted(pc'))
          => /\ chapter_index = chapter_count
             /\ Len(story_outline) = chapter_count]_vars

\* A job of several chapters has run to its end.
C17_Witness ==
    /\ pc = "done"
    /\ chapter_count = MaxBook
    /\ chapter_index = chapter_count
    /\ Len(chapters) = chapter_count

\* C18: at most one invocation of the service is outstanding, and an
\* invocation (the first of a call, the retry of the client, a fix prompt)
\* is handed to a worker only when none is outstanding.
C18_OneCallOutstanding ==
    /\ [](in_flight \in {0, 1})
    /\ [][in_flight' > in_flight => (in_flight = 0 /\ in_flight' = 1)]_vars

\* The retry of a fix prompt is outstanding, after the invocations before it.
C18_Witness ==
    /\ pc = "characters_fix"
    /\ client = "second"
    /\ in_flight = 1
    /\ gen_calls.character >= 2

\* C19: from an interrupt on (at an outstanding call, at the 5 s sleep of
\* the client or at the 10 s sleep of a chapter) no invocation is handed to
\* the service, no call is counted, and the disk stays as it is.
C19_InterruptStops ==
    [][client' = "cancelled"
          => /\ in_flight' <= in_flight
             /\ attempts' = attempts
             /\ gen_calls' = gen_calls
             /\ files' = files
             /\ denied' = denied]_vars

\* The job was interrupted at a call of its second chapter, with the file
\* of the first chapter on the disk.
C19_Witness ==
    /\ pc = "interrupted"
    /\ client = "cancelled"
    /\ in_flight = 1
    /\ chapter_index = 1
    /\ ChapterFile(1) \in DOMAIN files

\* No two entities of the sequence store share an id or a name.
Distinct(store) ==
    \A i, j \in 1..Len(store) :
        i # j => /\ store[i].id # store[j].id
                 /\ store[i].name # store[j].name

\* C20: no two characters of the store share an id or a name, and no two
\* locations do, whatever added them (a reply, a fallback, the default
\* universe); no two events share an id.
C20_UniqueIdsAndNames ==
    /\ Distinct(characters)
    /\ Distinct(locations)
    /\ \A i, j \in 1..Len(events) : i # j => events[i].id # events[j].id

(***************************************************************************)
(* The entity store: what it keeps, search, fingerprints.                  *)
(***************************************************************************)
\* before is the beginning of after: what was added is kept, in its place
\* and with its fields.
Kept(before, after) ==
    /\ Len(before) <= Len(after)
    /\ \A i \in 1..Len(before) : after[i] = before[i]

\* C21: a step of the job keeps every character, location and event of the
\* store where it is and with the field values it has (an event's
\* characters_involved by the value of its list), so each map only grows.
C21_AppendOnly ==
    [][/\ Kept(characters, characters')
       /\ Kept(locations, locations')
       /\ Kept(events, events')
       /\ \A i \in 1..Len(events) :
              /\ events[i].characters_involved \in DOMAIN lists'
              /\ lists'[events[i].characters_involved]
                     = lists[events[i].characters_involved]]_vars

\* Two chapters have stored their events in a store that holds the
\* characters of a fallback and of the default universe.
C21_Witness ==
    /\ pc = "done"
    /\ Len(events) >= 2
    /\ Len(characters) > Len(DefaultCharacters)
    /\ "universe" \in fallback_used

\* C24: in one process generate_vector returns one vector for a text,
\* however often it is called and whatever was drawn in between.
C24_DeterministicInRun ==
    \A t \in Texts : Cardinality(returned.run[t]) <= 1

\* A text was fingerprinted twice in one process, with other draws made.
C24_Witness ==
    \E t \in Texts :
        /\ returned.calls[t] = MaxCalls
        /\ Cardinality(returned.run[t]) = 1
        /\ \E u \in Texts \ {t} : returned.calls[u] >= 1

\* C25: generate_vector returns one vector for a text in every process.
C25_SameAcrossRuns ==
    \A t \in Texts : Cardinality(returned.ever[t]) <= 1

\* C22: a search on an index that holds nothing returns the empty sequence
\* and raises nothing, whatever the query and whatever k.
C22_EmptySearch ==
    (found.kind # "none" /\ found.n = 0)
        => /\ found.result = << >>
           /\ found.exc = "none"

\* An empty index was searched for MaxK entities.
C22_Witness ==
    /\ found.kind = "event"
    /\ found.n = 0
    /\ found.k = MaxK
    /\ found.result = << >>

\* The vectors of the kind the last search was made on.
VectorsSearched ==
    CASE found.kind = "character" -> vectors.character_index
      [] found.kind = "location" -> vectors.location_index
      [] OTHER -> vectors.event_index

\* The entities of the kind the last search was made on.
StoreSearched ==
    CASE found.kind = "character" -> characters
      [] found.kind = "location" -> locations
      [] OTHER -> events

\* C23: a search for k >= 1 on an index of n >= 1 entities returns
\* min(k, n) of them, none twice, and none farther from the query than an
\* entity it leaves out.
C23_NearestReturned ==
    (found.kind # "none" /\ found.n >= 1 /\ found.k >= 1)
        => /\ found.exc = "none"
           /\ Len(found.result) = Min(found.k, found.n)
           /\ \A i, j \in 1..Len(found.result) :
                  i # j => found.result[i] # found.result[j]
           /\ \A i \in 1..Len(found.result) :
                  \E a \in 1..found.n :
                      /\ found.result[i] = StoreSearched[a]
                      /\ \A b \in 1..found.n :
                             (\A j \in 1..Len(found.result) :
                                  found.result[j] # StoreSearched[b])
                                 => SquaredDistance(VectorsSearched[a], found.query)
                                        <= SquaredDistance(VectorsSearched[b], found.query)

(***************************************************************************)
(* Chapters, their events and the book.                                    *)
(***************************************************************************)
\* The number of the entry generate_chapter works on.
CurrentNumber ==
    Get(story_outline[chapter_index + 1], "number", 0)

\* C26: events are added to the store only in the step that ends the
\* generation of a chapter, with its content fixed, and under its number;
\* while chapter i is generated the store holds only events of chapters
\* before i, and so does the context of its prompt.
C26_EventsAfterContent ==
    /\ [](pc \in {"chapter", "chapter_sleep"}
             => \A i \in 1..Len(events) : events[i].chapter < CurrentNumber)
    /\ [][/\ (pc = "loop" /\ pc' = "chapter")
             => \A i \in 1..Len(chapter_prompt'.events) :
                    chapter_prompt'.events[i].chapter < CurrentNumber
          /\ events' # events
             => /\ pc \in {"chapter", "chapter_sleep"}
                /\ pc' \notin {"chapter", "chapter_sleep"}
                /\ ~Falsy(chapter_content')
                /\ \A i \in (Len(events) + 1)..Len(events') :
                       events'[i].chapter = CurrentNumber]_vars

\* The prompt of a later chapter shows events of the chapters before it.
C26_Witness ==
    /\ pc = "chapter"
    /\ chapter_index >= 2
    /\ chapter_prompt.kind = "full"
    /\ chapter_prompt.events # << >>

\* The parts of the document output/kitap.md.
Book ==
    files["output/kitap.md"]

\* C27: the document holds, in this order, the title, the foreword, one
\* part for each stored chapter (each chapter once, the numbers ascending),
\* the characters, the locations and the appendix.
C27_BookOrder ==
    "output/kitap.md" \in DOMAIN files
        => /\ Len(Book) = Len(chapters) + 5
           /\ Book[1].section = "title"
           /\ Book[2].section = "foreword"
           /\ \A i \in 1..Len(chapters) : Book[2 + i].section = "chapter"
           /\ \A i \in 1..(Len(chapters) - 1) : Book[2 + i].number < Book[3 + i].number
           /\ \E f \in [1..Len(chapters) -> 1..Len(chapters)] :
                  /\ \A i, j \in 1..Len(chapters) : i # j => f[i] # f[j]
                  /\ \A i \in 1..Len(chapters) :
                         /\ Book[2 + i].number = chapters[f[i]].number
                         /\ Book[2 + i].title = chapters[f[i]].title
                         /\ Book[2 + i].content = chapters[f[i]].content
           /\ Book[Len(chapters) + 3].section = "characters"
           /\ Book[Len(chapters) + 4].section = "locations"
           /\ Book[Len(chapters) + 5].section = "appendix"

\* The document of a book of several chapters was written.
C27_Witness ==
    /\ pc = "done"
    /\ "output/kitap.md" \in DOMAIN files
    /\ Len(chapters) >= 2

\* C28: generate_pdf_from_markdown returns to finalize_book whatever the
\* converter did: when it returns, output/kitap.md holds the document it
\* was given and the job is done, and a job whose converter failed stays
\* done with nothing raised.
C28_ConverterNeverFatal ==
    /\ [](pdf_success = "False"
              => /\ pc = "done"
                 /\ raised = "none"
                 /\ "output/kitap.md" \in DOMAIN files
                 /\ "output/kitap.pdf" \notin DOMAIN files)
    /\ [][/\ (pc = "appendix" /\ "output/kitap.md" \in DOMAIN files')
                 => pc' = "done" /\ pdf_success' \in {"True", "False"}
          /\ pdf_success' # pdf_success
                 => /\ pc' = "done"
                    /\ "output/kitap.md" \in DOMAIN files'
                    /\ files'["output/kitap.md"] = BookContent(Orch, result)]_vars

\* A job is done whose converter failed before pandoc returned: the
\* temporary file is left beside the document and there is no PDF.
C28_Witness ==
    /\ pc = "done"
    /\ pdf_success = "False"
    /\ "output/kitap.md" \in DOMAIN files
    /\ "output/kitap.pdf.temp.md" \in DOMAIN files

(***************************************************************************)
(* The startup of main.                                                    *)
(***************************************************************************)
\* The key is missing or the placeholder, or the config file is missing.
ConfigurationError ==
    env.api_key \in {"missing", "placeholder"} \/ env.config = "missing"

\* generate_content was never called: the client is as it was built.
NoCallIssued ==
    /\ client = "idle"
    /\ attempts = 0
    /\ in_flight = 0
    /\ response.status = "none"

\* C29: a process that starts on a missing or placeholder key or on a
\* missing config file issues no generation call and, once it has left
\* main, has a non-zero exit code.
C29_ConfigurationErrorFatal ==
    ConfigurationError
        => /\ NoCallIssued
           /\ pc # "main" => pc = "exited" /\ exit_code = "1"

(***************************************************************************)
(* The events and the file of a chapter.                                   *)
(***************************************************************************)
\* The titles of the Events of evs that carry chapter number, in store order.
TitlesOfChapter(evs, number) ==
    LET of_chapter == SelectSeq(evs, LAMBDA e : e.chapter = number)
    IN  [i \in 1..Len(of_chapter) |-> of_chapter[i].title]

\* The step that ends the processing of a chapter leaves in the store one
\* Event of that chapter for each event title of its outline entry, in the
\* order of the titles.
EventsPerTitle ==
    [][(pc \in {"chapter", "chapter_sleep"} /\ pc' = "loop")
          => TitlesOfChapter(events', CurrentNumber)
                 = Get(CurrentEntry(Orch), "events", << >>)]_vars

\* C30: the step that ends the processing of chapter i leaves in the store
\* one Event with chapter = i for each event title of outline entry i, in
\* the order of the titles, and while a chapter is being generated the file
\* of every chapter before it is on the disk.
C30_EventsAndFile ==
    /\ EventsPerTitle
    /\ [](pc \in {"chapter", "chapter_sleep"}
              => \A i \in 1..chapter_index : ChapterFile(i) \in DOMAIN files)

(***************************************************************************)
(* The context of a chapter prompt.                                        *)
(***************************************************************************)
\* The full prompt of a chapter has just been built and sent.
FullPromptSent ==
    pc = "chapter" /\ chapter_prompt.kind = "full"

\* The names of the chapter's character list as the prompt was built.
PromptNames ==
    lists[chapter_prompt.characters]

\* The stored Event a line of the recall was made from involves name.
Involves(line, name) ==
    \E i \in 1..Len(events) :
        /\ events[i].id = line.id
        /\ \E j \in 1..Len(lists[events[i].characters_involved]) :
               lists[events[i].characters_involved][j] = name

\* C31: the recall of a full prompt lists at most 5 events, no stored Event
\* twice, each involving one of the chapter's character names.
C31_RecallDistinct ==
    FullPromptSent
        => /\ Len(chapter_prompt.events) <= 5
           /\ \A i \in 1..Len(chapter_prompt.events) :
                  \E j \in 1..Len(PromptNames) :
                      Involves(chapter_prompt.events[i], PromptNames[j])
           /\ \A i, j \in 1..Len(chapter_prompt.events) :
                  i # j => chapter_prompt.events[i].id # chapter_prompt.events[j].id

\* The part of C31 that holds: at most 5 lines, each made from a stored Event
\* that involves one of the chapter's character names.
RecallEligible ==
    FullPromptSent
        => /\ Len(chapter_prompt.events) <= 5
           /\ \A i \in 1..Len(chapter_prompt.events) :
                  \E j \in 1..Len(PromptNames) :
                      Involves(chapter_prompt.events[i], PromptNames[j])

\* The stored Events that involve one of the chapter's character names.
Eligible ==
    {i \in 1..Len(events) :
        \E j \in 1..Len(PromptNames) :
            \E k \in 1..Len(lists[events[i].characters_involved]) :
                lists[events[i].characters_involved][k] = PromptNames[j]}

\* C32: the recall of a full prompt lists its events latest chapter first,
\* and no eligible Event that it leaves out is of a later chapter than one
\* that it lists.
C32_RecallMostRecent ==
    FullPromptSent
        => /\ \A i \in 1..(Len(chapter_prompt.events) - 1) :
                  chapter_prompt.events[i].chapter >= chapter_prompt.events[i + 1].chapter
           /\ \A e \in Eligible :
                  (\A i \in 1..Len(chapter_prompt.events) :
                       chapter_prompt.events[i].id # events[e].id)
                      => \A i \in 1..Len(chapter_prompt.events) :
                             events[e].chapter <= chapter_prompt.events[i].chapter

\* The stored chapters of a number below that of the chapter in hand.
StoredBefore ==
    {j \in 1..Len(chapters) : chapters[j].number < CurrentNumber}

\* The numbers the recap of the prompt lists.
RecapNumbers ==
    {chapter_prompt.recap[i].number : i \in 1..Len(chapter_prompt.recap)}

\* C33: the recap of a full prompt holds min(3, m) chapters, m being the
\* number of stored chapters of a lower number: each is such a chapter with
\* its title and summary, none is there twice, and no stored chapter that is
\* left out has a higher number than one that is listed.
C33_RecapLatestThree ==
    FullPromptSent
        => /\ Len(chapter_prompt.recap) = Min(3, Cardinality(StoredBefore))
           /\ Cardinality(RecapNumbers) = Len(chapter_prompt.recap)
           /\ \A i \in 1..Len(chapter_prompt.recap) :
                  \E j \in StoredBefore :
                      /\ chapters[j].number = chapter_prompt.recap[i].number
                      /\ chapters[j].title = chapter_prompt.recap[i].title
                      /\ chapters[j].summary = chapter_prompt.recap[i].summary
           /\ \A j \in StoredBefore :
                  chapters[j].number \notin RecapNumbers
                      => \A n \in RecapNumbers : chapters[j].number < n
           /\ CurrentNumber = 1 => chapter_prompt.recap = << >>

\* A recap of three chapters that leaves out an older stored chapter, in a
\* job one of whose chapters was not stored.
C33_Witness ==
    /\ FullPromptSent
    /\ Len(chapter_prompt.recap) = 3
    /\ Cardinality(StoredBefore) > 3
    /\ Len(chapters) < chapter_index

\* What a step that builds a full prompt may do with one list of names of
\* the entry: names is the list before the step and after is the list after
\* it, store the entities of the kind, details the ids the context was
\* written from, k the size of a sample. Either some name is that of a
\* stored entity, the context holds for each such name, in the order of the
\* list, the first stored entity of that name, and the list is as it was;
\* or none is and the context holds min(k, stored) entities of the store,
\* no one twice, whose names are appended to the list in that order.
ResolvedOrSampled(store, names, after, details, k) ==
    LET known == {i \in 1..Len(names) :
                     \E j \in 1..Len(store) : store[j].name = names[i]}
        FirstOf(name) == CHOOSE j \in 1..Len(store) :
                             /\ store[j].name = name
                             /\ \A h \in 1..(j - 1) : store[h].name # name
    IN  IF known # {}
        THEN /\ after = names
             /\ Len(details) = Cardinality(known)
             /\ \E f \in [1..Len(details) -> known] :
                    /\ \A a, b \in 1..Len(details) : a < b => f[a] < f[b]
                    /\ \A a \in 1..Len(details) :
                           details[a] = store[FirstOf(names[f[a]])].id
        ELSE /\ Len(details) = Min(k, Len(store))
             /\ \A a, b \in 1..Len(details) : a # b => details[a] # details[b]
             /\ Len(after) = Len(names) + Len(details)
             /\ SubSeq(after, 1, Len(names)) = names
             /\ \A a \in 1..Len(details) :
                    \E j \in 1..Len(store) :
                        /\ store[j].id = details[a]
                        /\ after[Len(names) + a] = store[j].name

\* The list of names an entry holds under key before its chapter is begun.
NamesOfEntry(key) ==
    IF key \in DOMAIN CurrentEntry(Orch)
    THEN lists[CurrentEntry(Orch)[key]]
    ELSE << >>

\* C34: the step that builds the full prompt of a chapter resolves the
\* character names and the location names of its entry by name, the first
\* stored match winning, or, when none resolves, takes a sample of 3
\* characters (2 locations) or of the whole store when it is smaller, and
\* adds the sampled names to the chapter's list.
C34_ContextResolution ==
    [][(pc = "loop" /\ pc' = "chapter")
          => /\ ResolvedOrSampled(characters, NamesOfEntry("characters"),
                                  lists'[chapter_prompt'.characters],
                                  chapter_prompt'.character_details, 3)
             /\ ResolvedOrSampled(locations, NamesOfEntry("locations"),
                                  lists'[chapter_prompt'.locations],
                                  chapter_prompt'.location_details, 2)]_vars

\* A full prompt whose entry named a character that is not stored: the
\* context holds a sample of three of the stored characters.
C34_Witness ==
    /\ FullPromptSent
    /\ Len(chapter_prompt.character_details) = 3
    /\ Len(PromptNames) > 3

\* A name of the entry is that of two stored characters.
DuplicateResolved ==
    /\ FullPromptSent
    /\ \E i, j \in 1..Len(characters) :
           /\ i < j
           /\ characters[i].name = characters[j].name
           /\ chapter_prompt.character_details = << characters[i].id >>

(***************************************************************************)
(* The outline that generate_story_outline returns.                        *)
(***************************************************************************)
\* The reply the returned outline was made from, as json.loads reads it.
OutlineReply ==
    JsonLoads(CleanJson(outline_json))

\* generate_story_outline has returned an outline made from a reply.
OutlineFromReply ==
    pc = "outline_done" /\ "outline" \notin fallback_used

\* entry is the object obj of the reply, whatever its number.
SameEntry(entry, obj) ==
    /\ DOMAIN entry \ {"number"} = DOMAIN obj \ {"number"}
    /\ \A key \in DOMAIN obj \ {"number"} :
           IF key \in {"characters", "locations"}
           THEN lists[entry[key]] = obj[key]
           ELSE entry[key] = obj[key]

\* C35: an outline made from a reply of k entries has N entries: the first
\* min(k, N) entries of the reply in their order and, after them, placeholders
\* with the title of their number and the characters and the locations of
\* the last entry of the reply.
C35_OutlineNormalized ==
    OutlineFromReply
        => LET items == OutlineReply.items
               k == Len(items)
               last == ObjectOf("outline", items[k])
           IN  /\ OutlineReply.ok
               /\ k >= 1
               /\ Len(story_outline) = chapter_count
               /\ \A i \in 1..Min(k, chapter_count) :
                      SameEntry(story_outline[i], ObjectOf("outline", items[i]))
               /\ \A i \in (k + 1)..chapter_count :
                      /\ story_outline[i].title = "Bolum " \o ToString(i)
                      /\ lists[story_outline[i].characters]
                             = Get(last, "characters", << >>)
                      /\ lists[story_outline[i].locations]
                             = Get(last, "locations", << >>)

\* An outline was returned that ends in a placeholder whose selections are
\* those of the last entry of a shorter reply.
C35_Witness ==
    /\ OutlineFromReply
    /\ Len(OutlineReply.items) < chapter_count
    /\ lists[story_outline[chapter_count].characters] # << >>

\* An outline was returned that is the beginning of a longer reply.
OutlineTruncated ==
    /\ OutlineFromReply
    /\ Len(OutlineReply.items) > chapter_count

(***************************************************************************)
(* The store that create_universe leaves.                                  *)
(***************************************************************************)
\* The store holds the entities of objs, in that order, and no other.
HoldsExactly(store, objs) ==
    /\ Len(store) = Len(objs)
    /\ \A i \in 1..Len(objs) : store[i].name = objs[i].name

\* C36: when create_universe has returned by way of the default universe,
\* the store holds the three default characters and the three default
\* locations and nothing else.
C36_DefaultUniverseOnly ==
    (pc = "universe_done" /\ "universe" \in fallback_used)
        => /\ HoldsExactly(characters, DefaultCharacters)
           /\ HoldsExactly(locations, DefaultLocations)

(***************************************************************************)
(* Termination of the job.                                                 *)
(***************************************************************************)
\* The process has ended: the book is done, the job was aborted or
\* interrupted, or main left before it started.
Ended ==
    pc \in {"done", "aborted", "interrupted", "exited"}

\* How many steps generate_content may still take before it returns or
\* raises.
ClientRank ==
    IF client = "first" /\ response.status = "pending" THEN 7
    ELSE IF client = "first" /\ response.status = "error" THEN 6
    ELSE IF client = "sleep5" THEN 5
    ELSE IF client = "second" /\ response.status = "pending" THEN 4
    ELSE IF client \in {"first", "second"} THEN 1
    ELSE 0

\* How many steps of the orchestrator the loop over the chapters and
\* finalize_book may still take with left chapters to begin.
LoopRank(left) ==
    6 + 6 * left

\* How many steps the orchestrator may still take.
OrchRank ==
    LET all == LoopRank(chapter_count)
        rest == LoopRank(chapter_count - chapter_index - 1)
    IN  IF Ended THEN 0
        ELSE IF pc = "job_except" THEN 1
        ELSE IF pc = "appendix" THEN 2
        ELSE IF pc = "foreword" THEN 3
        ELSE IF pc = "title" THEN 4
        ELSE IF pc = "loop_done" THEN 5
        ELSE IF pc = "loop" THEN LoopRank(chapter_count - chapter_index)
        ELSE IF pc = "chapter" THEN rest + 5 - 2 * retry_count
        ELSE IF pc = "chapter_sleep" THEN rest + 6 - 2 * retry_count
        ELSE IF pc = "outline_done" THEN all + 1
        ELSE IF pc = "outline_fix" THEN all + 4 - retry_count
        ELSE IF pc = "outline" THEN all + 4
        ELSE IF pc = "universe_done" THEN all + 5
        ELSE IF pc = "locations_fix" THEN all + 9 - retry_count
        ELSE IF pc = "locations" THEN all + 9
        ELSE IF pc = "characters_fix" THEN all + 14 - retry_count
        ELSE IF pc = "characters" THEN all + 14
        ELSE IF pc = "plot" THEN all + 15
        ELSE IF pc = "start" THEN all + 16
        ELSE all + 17

\* The steps the process may still take: each step of the orchestrator
\* leaves room for one whole call of generate_content.
Rank ==
    8 * OrchRank + ClientRank

\* The guards of the steps of generate_content: an invocation in flight
\* is answered or fails, its answer is returned, its failure is caught or
\* raised, and the 5 s sleep ends.
ClientCanStep ==
    /\ pc \in CallSites
    /\ RepliesAt(pc) # {}
    /\ \/ client \in {"first", "second"} /\ response.status \in {"pending", "ok", "error"}
       \/ client = "sleep5"

\* The guards of the steps of the orchestrator: it runs from where no await
\* holds it, it resumes when the call it awaits is over, and the 10 s sleep
\* of generate_chapter ends.
OrchCanStep ==
    \/ pc \in {"main", "start", "universe_done", "outline_done", "loop",
               "chapter_sleep", "loop_done", "job_except"}
    \/ pc \in CallSites /\ client \in {"returned", "raised"}

\* C37: the rank of the job is a natural number, at the start at most
\* 8 * (6 N + 23); every step lowers it, so a job of N chapters takes no
\* more steps than that and invokes the service no more often; and as long
\* as the process has not ended, the guard of a step of the client or of
\* the orchestrator holds. A job in which no step that can be taken is put
\* off for ever therefore ends: done, aborted, interrupted or left by main.
C37_Terminates ==
    /\ [](Rank \in 0..(8 * (6 * chapter_count + 23)))
    /\ [][Rank' < Rank]_vars
    /\ [](~Ended => ClientCanStep \/ OrchCanStep)

\* A job of several chapters is done after a chapter needed every attempt
\* and calls needed their retry.
C37_Witness ==
    /\ pc = "done"
    /\ chapter_count >= 2
    /\ "chapter" \in fallback_used

(***************************************************************************)
(* The store under its adds.                                               *)
(***************************************************************************)
\* The id-keyed map of one kind holds as many entities as were inserted
\* (no id twice), and as many as the kind's vector list and index hold
\* vectors; the index holds the vectors of the list, position by position.
KindConsistent(map, list, index) ==
    /\ \A i, j \in 1..Len(map) : i # j => map[i].id # map[j].id
    /\ Len(map) = Len(list)
    /\ Len(list) = Len(index)
    /\ \A j \in 1..Len(index) : index[j] = list[j]

\* A step that adds to one kind: the map holds one entity more, at its
\* last insertion position and under a new id, the entities before it as
\* they were; one fingerprint is the last of the kind's list and of its
\* index, the vectors before it as they were.
AddedTo(map, map_after, list, list_after, index, index_after) ==
    /\ Len(map_after) = Len(map) + 1
    /\ SubSeq(map_after, 1, Len(map)) = map
    /\ \E v \in Points :
           /\ list_after = Append(list, v)
           /\ index_after = Append(index, v)

\* A step that leaves one kind alone.
KindUnchanged(map, map_after, list, list_after, index, index_after) ==
    /\ map_after = map
    /\ list_after = list
    /\ index_after = index

\* C38: after any sequence of adds, for each kind the id-keyed map, the
\* vector list and the index hold the same number of elements and the
\* entity at insertion position j of the map came with the fingerprint at
\* position j of the index; an add to one kind leaves the maps and the
\* indexes of the two other kinds unchanged, and no other step changes
\* the store.
C38_StoreConsistent ==
    /\ [](/\ KindConsistent(characters, vectors.character,
                            vectors.character_index)
          /\ KindConsistent(locations, vectors.location,
                            vectors.location_index)
          /\ KindConsistent(events, vectors.event, vectors.event_index))
    /\ [][LET c == AddedTo(characters, characters',
                           vectors.character, vectors'.character,
                           vectors.character_index, vectors'.character_index)
              l == AddedTo(locations, locations',
                           vectors.location, vectors'.location,
                           vectors.location_index, vectors'.location_index)
              e == AddedTo(events, events',
                           vectors.event, vectors'.event,
                           vectors.event_index, vectors'.event_index)
              c0 == KindUnchanged(characters, characters',
                                  vectors.character, vectors'.character,
                                  vectors.character_index,
                                  vectors'.character_index)
              l0 == KindUnchanged(locations, locations',
                                  vectors.location, vectors'.location,
                                  vectors.location_index,
                                  vectors'.location_index)
              e0 == KindUnchanged(events, events',
                                  vectors.event, vectors'.event,
                                  vectors.event_index, vectors'.event_index)
          IN  ~(c0 /\ l0 /\ e0)
                  => \/ c /\ l0 /\ e0
                     \/ c0 /\ l /\ e0
                     \/ c0 /\ l0 /\ e]_vars

\* A store every kind was added to, with different fingerprints.
C38_Witness ==
    /\ pc = "adds"
    /\ characters # << >>
    /\ locations # << >>
    /\ events # << >>
    /\ vectors.character_index # vectors.location_index
    /\ vectors.location_index # vectors.event_index

(***************************************************************************)
(* The events of the store and the chapter list.                           *)
(***************************************************************************)
\* The for loop of generate_full_story is between two chapters, or over.
BetweenChapters ==
    pc \in {"loop", "loop_done", "title", "foreword", "appendix", "done"}

\* C39: whenever the chapter loop is between two chapters or has ended,
\* every Event of the store has the number of a Chapter of self.chapters
\* as its chapter number.
C39_EventsOfStoredChapters ==
    BetweenChapters
        => \A e \in 1..Len(events) :
               \E c \in 1..Len(chapters) :
                   chapters[c].number = events[e].chapter

====
